---- MODULE Spec2Model ----
(***************************************************************************)
(* Verification model of the sandboxed file tools of 01_agent              *)
(* (fs_read / fs_write and their lib helpers).                              *)
(*                                                                         *)
(* Text is modelled as a sequence of one-character strings, so that the    *)
(* string functions of the source (split, slice, startsWith, trim, ...)    *)
(* are computed, not assumed.                                              *)
(***************************************************************************)
EXTENDS Integers, Sequences, FiniteSets, TLC

VARIABLES
    fs,        \* the workspace tree: relative path (sequence of names) -> node
    last,      \* the last fs_read / fs_write call: request, result, tree before it
    hist,      \* results of the earlier calls of a scenario (oldest first)
    procs,     \* concurrent fs_write calls in flight: position and locals of each
    pureIn,    \* input of the pure library function under check
    pureOut    \* its result, or Pending before the call

vars == <<fs, last, hist, procs, pureIn, pureOut>>

(***************************************************************************)
(* Values                                                                  *)
(***************************************************************************)
NoVal == "undefined"      \* a missing (undefined) argument or field
Pending == [done |-> FALSE]      \* no call made yet
\* the variables a specification does not use stay at these values
Idle == [fs |-> <<>>, last |-> Pending, hist |-> <<>>, procs |-> <<>>]
NL == "\n"
BS == "\\"

LowerLetters == {"a","b","c","d","e","f","g","h","i","j","k","l","m",
                 "n","o","p","q","r","s","t","u","v","w","x","y","z"}
UpperLetters == {"A","B","C","D","E","F","G","H","I","J","K","L","M",
                 "N","O","P","Q","R","S","T","U","V","W","X","Y","Z"}
Digits == {"0","1","2","3","4","5","6","7","8","9"}
Whitespace == {" ", "\t", NL, "\r"}

(***************************************************************************)
(* String primitives of the JavaScript runtime                             *)
(***************************************************************************)
\* s.slice(from) for 0-based from, as a 1-based suffix
DropFirst(s, n) == SubSeq(s, n + 1, Len(s))

StartsWith(s, p) == Len(p) <= Len(s) /\ SubSeq(s, 1, Len(p)) = p

EndsWith(s, p) == Len(p) <= Len(s) /\ SubSeq(s, Len(s) - Len(p) + 1, Len(s)) = p

RECURSIVE TrimStart(_)
TrimStart(s) ==
    IF Len(s) > 0 /\ s[1] \in Whitespace THEN TrimStart(Tail(s)) ELSE s

RECURSIVE TrimEnd(_)
TrimEnd(s) ==
    IF Len(s) > 0 /\ s[Len(s)] \in Whitespace
    THEN TrimEnd(SubSeq(s, 1, Len(s) - 1)) ELSE s

\* String.prototype.trim
Trim(s) == TrimEnd(TrimStart(s))

\* s.split(sep) for a separator that is one character of the set seps
SplitOn(s, seps) ==
    LET IsSep(i) == s[i] \in seps
        cuts == SelectSeq([i \in 1..Len(s) |-> i], IsSep)
        edges == <<0>> \o cuts \o <<Len(s) + 1>>
    IN  [k \in 1..(Len(cuts) + 1) |-> SubSeq(s, edges[k] + 1, edges[k + 1] - 1)]

\* parts.join(sep)
RECURSIVE JoinWith(_, _)
JoinWith(parts, sep) ==
    IF Len(parts) = 0 THEN <<>>
    ELSE IF Len(parts) = 1 THEN parts[1]
    ELSE LET half == Len(parts) \div 2
         IN  JoinWith(SubSeq(parts, 1, half), sep) \o sep
                 \o JoinWith(SubSeq(parts, half + 1, Len(parts)), sep)

\* s.replace(/c/g, d) for single characters
ReplaceChar(s, c, d) == [i \in 1..Len(s) |-> IF s[i] = c THEN d ELSE s[i]]

\* s.replace(/^c+/, '')
RECURSIVE StripLeading(_, _)
StripLeading(s, c) ==
    IF Len(s) > 0 /\ s[1] = c THEN StripLeading(Tail(s), c) ELSE s

(***************************************************************************)
(* paths.js: resolvePath                                                   *)
(***************************************************************************)
\* CONFIG.workspace.root, an absolute POSIX path (path.sep is "/")
Root == <<"/", "w">>
Sep == "/"

hasEscapeAttempt(pathStr) ==
    LET segments == SplitOn(pathStr, {"/", BS})
    IN  \E k \in 1..Len(segments) : segments[k] = <<".", ".">>

\* isAbsolutePath recognising the drive-letter form only
isAbsolutePathNoSlash(pathStr) ==
    /\ Len(pathStr) >= 3
    /\ pathStr[1] \in LowerLetters \cup UpperLetters
    /\ pathStr[2] = ":"
    /\ pathStr[3] \in {"/", BS}

isAbsolutePath(pathStr) ==
    \/ StartsWith(pathStr, <<"/">>)
    \/ /\ Len(pathStr) >= 3
       /\ pathStr[1] \in LowerLetters \cup UpperLetters
       /\ pathStr[2] = ":"
       /\ pathStr[3] \in {"/", BS}

\* node:path normalizeString on the segments of an absolute POSIX path
RECURSIVE NormalizeSegments(_, _)
NormalizeSegments(segs, acc) ==
    IF Len(segs) = 0 THEN acc
    ELSE LET s == Head(segs)
         IN  IF s = <<>> \/ s = <<".">>
             THEN NormalizeSegments(Tail(segs), acc)
             ELSE IF s = <<".", ".">>
             THEN NormalizeSegments(Tail(segs),
                      IF Len(acc) = 0 THEN acc ELSE SubSeq(acc, 1, Len(acc) - 1))
             ELSE NormalizeSegments(Tail(segs), Append(acc, s))

\* path.resolve(root, rel) on POSIX, for an absolute root and a rel that
\* does not start with "/"
PathResolve(root, rel) ==
    LET joined == root \o <<Sep>> \o rel
        segs == NormalizeSegments(SplitOn(joined, {Sep}), <<>>)
    IN  <<Sep>> \o JoinWith(segs, <<Sep>>)

resolvePath(virtualPath) ==
    LET trimmed == Trim(virtualPath)
        root == Root
    IN  IF isAbsolutePath(trimmed)
        THEN [ok |-> FALSE, error |-> "Absolute paths not allowed"]
        ELSE IF hasEscapeAttempt(trimmed)
        THEN [ok |-> FALSE, error |-> "Path cannot contain .. segments"]
        ELSE IF trimmed = <<".">> \/ trimmed = <<>> \/ trimmed = <<"/">>
        THEN [ok |-> TRUE, absolutePath |-> root, virtualPath |-> <<".">>]
        ELSE LET normalized == StripLeading(ReplaceChar(trimmed, BS, "/"), "/")
                 absolutePath == PathResolve(root, normalized)
             IN  IF ~StartsWith(absolutePath, root \o <<Sep>>) /\ absolutePath # root
                 THEN [ok |-> FALSE, error |-> "Path is outside workspace"]
                 ELSE [ok |-> TRUE, absolutePath |-> absolutePath,
                       virtualPath |-> normalized]

\* the first step of fs_read.execute and fs_write.execute: the envelope
\* returned when the path does not resolve, else the resolved path
ExecuteResolve(rawPath) ==
    LET resolved == resolvePath(rawPath)
    IN  IF ~resolved.ok
        THEN [done |-> TRUE, success |-> FALSE, path |-> rawPath,
              code |-> "INVALID_PATH"]
        ELSE [done |-> TRUE, success |-> TRUE,
              absolutePath |-> resolved.absolutePath,
              virtualPath |-> resolved.virtualPath]

(***************************************************************************)
(* More of the JavaScript runtime: numbers, arrays, case                   *)
(***************************************************************************)
Min(a, b) == IF a < b THEN a ELSE b
Max(a, b) == IF a > b THEN a ELSE b

DigitSeq == <<"0","1","2","3","4","5","6","7","8","9">>
UpperSeq == <<"A","B","C","D","E","F","G","H","I","J","K","L","M",
              "N","O","P","Q","R","S","T","U","V","W","X","Y","Z">>
LowerSeq == <<"a","b","c","d","e","f","g","h","i","j","k","l","m",
              "n","o","p","q","r","s","t","u","v","w","x","y","z">>

DigitVal(c) == (CHOOSE i \in 1..Len(DigitSeq) : DigitSeq[i] = c) - 1

\* parseInt(digits, 10) for a non-empty string of decimal digits
RECURSIVE ParseInt(_)
ParseInt(digits) ==
    IF Len(digits) = 0 THEN 0
    ELSE ParseInt(SubSeq(digits, 1, Len(digits) - 1)) * Len(DigitSeq)
             + DigitVal(digits[Len(digits)])

\* String(n) for n >= 0
RECURSIVE ToStr(_)
ToStr(n) ==
    IF n < Len(DigitSeq) THEN <<DigitSeq[n + 1]>>
    ELSE ToStr(n \div Len(DigitSeq)) \o <<DigitSeq[(n % Len(DigitSeq)) + 1]>>

IsDigits(s) == Len(s) > 0 /\ \A i \in 1..Len(s) : s[i] \in Digits

LowerChar(c) ==
    IF c \in UpperLetters
    THEN LowerSeq[CHOOSE i \in 1..Len(UpperSeq) : UpperSeq[i] = c]
    ELSE c

\* String.prototype.toLowerCase
ToLowerCase(s) == [i \in 1..Len(s) |-> LowerChar(s[i])]

\* an index argument of slice / splice brought into 0..n
ClampIndex(i, n) == IF i < 0 THEN Max(n + i, 0) ELSE Min(i, n)

\* arr.slice(from, to): negative indices count from the end
JsSlice(arr, from, to) ==
    SubSeq(arr, ClampIndex(from, Len(arr)) + 1, ClampIndex(to, Len(arr)))

\* arr.splice(index, 0, item)
JsSpliceInsert(arr, index, item) ==
    LET k == ClampIndex(index, Len(arr))
    IN  SubSeq(arr, 1, k) \o <<item>> \o SubSeq(arr, k + 1, Len(arr))

\* s.padStart(width, ' ')
RECURSIVE PadStart(_, _)
PadStart(s, width) == IF Len(s) >= width THEN s ELSE PadStart(<<" ">> \o s, width)

\* content.split('\n') and lines.join('\n')
SplitLines(content) == SplitOn(content, {NL})
JoinLines(lines) == JoinWith(lines, <<NL>>)

(***************************************************************************)
(* checksum.js                                                             *)
(***************************************************************************)
\* The first 12 hex characters of SHA-256. The digest is modelled as a
\* token that is a function of the content and collision-free on the
\* contents of the model; it is never the empty string.
\* a digest that depends on the length of the content only
generateChecksumOfLength(content) == <<"#">> \o ToStr(Len(content))

generateChecksum(content) == <<"#">> \o content

verifyChecksum(content, expected) == generateChecksum(content) = expected

(***************************************************************************)
(* lines.js                                                                *)
(***************************************************************************)
NoRange == [ok |-> FALSE, start |-> 0, end |-> 0]

parseLineRange(range) ==
    LET trimmed == Trim(range)
        parts == SplitOn(trimmed, {"-"})
    IN  IF IsDigits(trimmed)
        THEN [ok |-> TRUE, start |-> ParseInt(trimmed), end |-> ParseInt(trimmed)]
        ELSE IF Len(parts) = 2 /\ IsDigits(parts[1]) /\ IsDigits(parts[2])
                /\ ParseInt(parts[1]) <= ParseInt(parts[2])
        THEN [ok |-> TRUE, start |-> ParseInt(parts[1]), end |-> ParseInt(parts[2])]
        ELSE NoRange

addLineNumbers(content, startLine) ==
    LET lines == SplitLines(content)
        maxLineNum == startLine + Len(lines) - 1
        width == Len(ToStr(maxLineNum))
    IN  JoinLines([i \in 1..Len(lines) |->
            PadStart(ToStr(startLine + i - 1), width) \o <<"|">> \o lines[i]])

extractLines(content, start, end) ==
    LET lines == SplitLines(content)
        actualStart == Max(1, start)
        actualEnd == Min(Len(lines), end)
    IN  [text |-> JoinLines(JsSlice(lines, actualStart - 1, actualEnd)),
         actualStart |-> actualStart,
         actualEnd |-> actualEnd]

\* replaceLines keeping the last line of the range
replaceLinesKeepingEnd(content, start, end, replacement) ==
    LET lines == SplitLines(content)
        before == JsSlice(lines, 0, start - 1)
        after == JsSlice(lines, end - 1, Len(lines))
    IN  JoinLines(before \o <<replacement>> \o after)

replaceLines(content, start, end, replacement) ==
    LET lines == SplitLines(content)
        before == JsSlice(lines, 0, start - 1)
        after == JsSlice(lines, end, Len(lines))
    IN  JoinLines(before \o <<replacement>> \o after)

insertBeforeLine(content, line, insertion) ==
    LET lines == SplitLines(content)
        insertIndex == Max(0, line - 1)
    IN  JoinLines(JsSpliceInsert(lines, insertIndex, insertion))

\* insertAfterLine with the index kept below the number of lines
insertAfterLineWithin(content, line, insertion) ==
    LET lines == SplitLines(content)
        insertIndex == Min(Len(lines) - 1, line)
    IN  JoinLines(JsSpliceInsert(lines, insertIndex, insertion))

insertAfterLine(content, line, insertion) ==
    LET lines == SplitLines(content)
        insertIndex == Min(Len(lines), line)
    IN  JoinLines(JsSpliceInsert(lines, insertIndex, insertion))

\* deleteLines keeping the last line of the range
deleteLinesKeepingEnd(content, start, end) ==
    LET lines == SplitLines(content)
        before == JsSlice(lines, 0, start - 1)
        after == JsSlice(lines, end - 1, Len(lines))
    IN  JoinLines(before \o after)

deleteLines(content, start, end) ==
    LET lines == SplitLines(content)
        before == JsSlice(lines, 0, start - 1)
        after == JsSlice(lines, end, Len(lines))
    IN  JoinLines(before \o after)

(***************************************************************************)
(* patterns.js, for patterns of plain characters (no regex metacharacter,  *)
(* no whitespace), on which the modes literal, regex and fuzzy compile to  *)
(* the same expression                                                     *)
(***************************************************************************)
MatchesAt(content, pattern, index) ==
    /\ index + Len(pattern) <= Len(content)
    /\ SubSeq(content, index + 1, index + Len(pattern)) = pattern

\* the { index, text, line, column } of a match at 0-based offset index
MatchRecord(content, pattern, index) ==
    LET lines == SplitLines(SubSeq(content, 1, index))
    IN  [index |-> index, text |-> pattern,
         line |-> Len(lines), column |-> Len(lines[Len(lines)]) + 1]

\* the exec loop: lastIndex is the offset the next search starts from
RECURSIVE ExecLoop(_, _, _, _, _)
ExecLoop(content, pattern, lastIndex, maxMatches, matches) ==
    IF Len(matches) >= maxMatches
          \/ ~\E i \in lastIndex..Len(content) : MatchesAt(content, pattern, i)
    THEN matches
    ELSE LET index == CHOOSE i \in lastIndex..Len(content) :
                          /\ MatchesAt(content, pattern, i)
                          /\ \A j \in lastIndex..(i - 1) : ~MatchesAt(content, pattern, j)
             end == index + Len(pattern)
         IN  ExecLoop(content, pattern, IF end = index THEN end + 1 ELSE end,
                      maxMatches, Append(matches, MatchRecord(content, pattern, index)))

findMatches(content, pattern, maxMatches) ==
    ExecLoop(content, pattern, 0, maxMatches, <<>>)

UniqueMatchCap == 10
ReplaceAllCap == 10000

\* findUniqueMatch counting the lines that hold a match, not the matches
findUniqueMatchByLines(content, pattern) ==
    LET matches == findMatches(content, pattern, UniqueMatchCap)
        lines == {matches[i].line : i \in 1..Len(matches)}
    IN  IF Len(matches) = 0
        THEN [error |-> "not_found", count |-> 0, lines |-> <<>>, match |-> <<>>]
        ELSE IF Len(matches) > 1
        THEN [error |-> "multiple", count |-> Cardinality(lines),
              lines |-> [i \in 1..Len(matches) |-> matches[i].line], match |-> <<>>]
        ELSE [error |-> "", count |-> 1, lines |-> <<>>, match |-> <<matches[1]>>]

findUniqueMatch(content, pattern) ==
    LET matches == findMatches(content, pattern, UniqueMatchCap)
    IN  IF Len(matches) = 0
        THEN [error |-> "not_found", count |-> 0, lines |-> <<>>, match |-> <<>>]
        ELSE IF Len(matches) > 1
        THEN [error |-> "multiple", count |-> Len(matches),
              lines |-> [i \in 1..Len(matches) |-> matches[i].line], match |-> <<>>]
        ELSE [error |-> "", count |-> 1, lines |-> <<>>, match |-> <<matches[1]>>]

\* the matches rewritten from the last to the first
RECURSIVE RewriteBackwards(_, _, _, _)
RewriteBackwards(newContent, matches, i, replacement) ==
    IF i = 0 THEN newContent
    ELSE RewriteBackwards(
             SubSeq(newContent, 1, matches[i].index) \o replacement
                 \o DropFirst(newContent, matches[i].index + Len(matches[i].text)),
             matches, i - 1, replacement)

replaceAllMatches(content, pattern, replacement) ==
    LET matches == findMatches(content, pattern, ReplaceAllCap)
    IN  IF Len(matches) = 0
        THEN [newContent |-> content, count |-> 0, affectedLines |-> {}]
        ELSE [newContent |-> RewriteBackwards(content, matches, Len(matches), replacement),
              count |-> Len(matches),
              affectedLines |-> {matches[i].line : i \in 1..Len(matches)}]

(***************************************************************************)
(* filetypes.js: isTextFile, with path.basename and path.extname           *)
(***************************************************************************)
TEXT_EXTENSIONS == {
    <<".","m","d">>, <<".","m","a","r","k","d","o","w","n">>,
    <<".","m","d","x">>, <<".","t","x","t">>, <<".","t","e","x","t">>,
    <<".","r","s","t">>, <<".","a","d","o","c">>, <<".","t","s">>,
    <<".","t","s","x">>, <<".","m","t","s">>, <<".","c","t","s">>,
    <<".","j","s">>, <<".","j","s","x">>, <<".","m","j","s">>,
    <<".","c","j","s">>, <<".","p","y">>, <<".","p","y","w">>,
    <<".","p","y","i">>, <<".","r","s">>, <<".","g","o">>,
    <<".","j","a","v","a">>, <<".","c">>, <<".","h">>, <<".","c","p","p">>,
    <<".","c","c">>, <<".","c","x","x">>, <<".","h","p","p">>,
    <<".","h","h">>, <<".","h","x","x">>, <<".","c","s">>, <<".","r","b">>,
    <<".","p","h","p">>, <<".","s","w","i","f","t">>, <<".","k","t">>,
    <<".","k","t","s">>, <<".","s","c","a","l","a">>, <<".","r">>,
    <<".","R">>, <<".","l","u","a">>, <<".","p","l">>, <<".","p","m">>,
    <<".","s","h">>, <<".","b","a","s","h">>, <<".","z","s","h">>,
    <<".","h","t","m","l">>, <<".","h","t","m">>, <<".","c","s","s">>,
    <<".","s","c","s","s">>, <<".","s","a","s","s">>,
    <<".","l","e","s","s">>, <<".","j","s","o","n">>,
    <<".","j","s","o","n","c">>, <<".","y","a","m","l">>,
    <<".","y","m","l">>, <<".","x","m","l">>, <<".","t","o","m","l">>,
    <<".","i","n","i">>, <<".","c","f","g">>, <<".","e","n","v">>,
    <<".","g","i","t","i","g","n","o","r","e">>,
    <<".","i","g","n","o","r","e">>,
    <<".","e","d","i","t","o","r","c","o","n","f","i","g">>,
    <<".","s","q","l">>, <<".","g","r","a","p","h","q","l">>,
    <<".","g","q","l">>
}
TEXT_BASENAMES == {
    <<"M","a","k","e","f","i","l","e">>,
    <<"D","o","c","k","e","r","f","i","l","e">>,
    <<"J","e","n","k","i","n","s","f","i","l","e">>,
    <<"V","a","g","r","a","n","t","f","i","l","e">>,
    <<"L","I","C","E","N","S","E">>,
    <<"R","E","A","D","M","E">>,
    <<"C","H","A","N","G","E","L","O","G">>
}

\* path.basename of a path without a trailing separator
Basename(filepath) ==
    LET segs == SplitOn(filepath, {Sep}) IN segs[Len(segs)]

\* path.extname: from the last dot of the base name, unless that dot is its
\* first character
Extname(filepath) ==
    LET base == Basename(filepath)
        dots == {i \in 1..Len(base) : base[i] = "."}
        lastDot == CHOOSE i \in dots : \A j \in dots : j <= i
    IN  IF dots = {} \/ base = <<".", ".">> THEN <<>>
        ELSE IF lastDot = 1 THEN <<>>
        ELSE DropFirst(base, lastDot - 1)

isTextFile(filepath) ==
    LET ext == ToLowerCase(Extname(filepath))
        basename == Basename(filepath)
    IN  \/ ext \in TEXT_EXTENSIONS
        \/ basename \in TEXT_BASENAMES
        \/ (StartsWith(basename, <<".">>) /\ ext = <<>>)

(***************************************************************************)
(* The file system under the workspace root (node:fs/promises).  A tree    *)
(* maps absolute paths to nodes; each operation returns ok with its        *)
(* effect, or the errno it rejects with.                                   *)
(***************************************************************************)
NoNode == [kind |-> "none", content |-> <<>>]
DirNode == [kind |-> "dir", content |-> <<>>]
FileNode(c) == [kind |-> "file", content |-> c]

NodeAt(f, p) == IF p \in DOMAIN f THEN f[p] ELSE NoNode

\* path.dirname of an absolute path
Dirname(p) ==
    LET segs == SplitOn(p, {Sep})
    IN  IF Len(segs) <= 2 THEN <<Sep>>
        ELSE JoinWith(SubSeq(segs, 1, Len(segs) - 1), <<Sep>>)

FsFail(f, errno) == [ok |-> FALSE, errno |-> errno, fs |-> f, content |-> <<>>]
FsOk(f, content) == [ok |-> TRUE, errno |-> "", fs |-> f, content |-> content]

\* fs.access: resolves when the path names a file or a directory
FsAccess(f, p) == NodeAt(f, p).kind # "none"

\* fs.stat: the kind of the node, "none" when stat rejects
FsStat(f, p) == NodeAt(f, p).kind

FsReadFile(f, p) ==
    LET n == NodeAt(f, p)
    IN  IF n.kind = "file" THEN FsOk(f, n.content)
        ELSE IF n.kind = "dir" THEN FsFail(f, "EISDIR")
        ELSE FsFail(f, "ENOENT")

FsWriteFile(f, p, content) ==
    IF NodeAt(f, p).kind = "dir" THEN FsFail(f, "EISDIR")
    ELSE IF NodeAt(f, Dirname(p)).kind = "file" THEN FsFail(f, "ENOTDIR")
    ELSE IF NodeAt(f, Dirname(p)).kind = "none" THEN FsFail(f, "ENOENT")
    ELSE FsOk([f EXCEPT ![p] = FileNode(content)], <<>>)

\* fs.mkdir(dir, { recursive: true })
RECURSIVE FsMkdir(_, _)
FsMkdir(f, dir) ==
    IF NodeAt(f, dir).kind = "dir" THEN FsOk(f, <<>>)
    ELSE IF NodeAt(f, dir).kind = "file" THEN FsFail(f, "EEXIST")
    ELSE LET up == FsMkdir(f, Dirname(dir))
         IN  IF ~up.ok THEN FsFail(f, "ENOTDIR")
             ELSE FsOk([up.fs EXCEPT ![dir] = DirNode], <<>>)

FsUnlink(f, p) ==
    LET n == NodeAt(f, p)
    IN  IF n.kind = "file" THEN FsOk([f EXCEPT ![p] = NoNode], <<>>)
        ELSE IF n.kind = "dir" THEN FsFail(f, "EISDIR")
        ELSE FsFail(f, "ENOENT")

(***************************************************************************)
(* fs-write.js.  A missing string argument is the empty string: every      *)
(* test of the source on these arguments (truthiness, ?? '') takes the     *)
(* same branch for undefined and for ''.                                   *)
(***************************************************************************)
\* the JSON result of fs_write; applied is "true", "false" or "absent"
WriteResult(success, operation, applied, code, action, newChecksum) ==
    [outcome |-> "returned", success |-> success, operation |-> operation,
     applied |-> applied, code |-> code, action |-> action,
     newChecksum |-> newChecksum]

WriteError(operation, code) == WriteResult(FALSE, operation, "false", code, "", <<>>)

\* the promise of execute rejects with a file-system error
Rejected(operation, errno) ==
    [outcome |-> "thrown", success |-> FALSE, operation |-> operation,
     applied |-> "absent", code |-> errno, action |-> "", newChecksum |-> <<>>]

fileExists(f, absPath) == FsAccess(f, absPath)

\* createFile without the mkdir of the parent directory
createFileNoMkdir(f, absPath, content, dryRun) ==
    LET written == FsWriteFile(f, absPath, content)
    IN  IF fileExists(f, absPath)
        THEN [res |-> WriteError("create", "ALREADY_EXISTS"), fs |-> f]
        ELSE IF dryRun
        THEN [res |-> WriteResult(TRUE, "create", "false", "", "would_create", <<>>),
              fs |-> f]
        ELSE IF ~written.ok
        THEN [res |-> Rejected("create", written.errno), fs |-> f]
        ELSE [res |-> WriteResult(TRUE, "create", "true", "", "created",
                                  generateChecksum(content)),
              fs |-> written.fs]

createFile(f, absPath, content, dryRun) ==
    IF fileExists(f, absPath)
    THEN [res |-> WriteError("create", "ALREADY_EXISTS"), fs |-> f]
    ELSE IF dryRun
    THEN [res |-> WriteResult(TRUE, "create", "false", "", "would_create", <<>>),
          fs |-> f]
    ELSE LET made == FsMkdir(f, Dirname(absPath))
             written == FsWriteFile(made.fs, absPath, content)
         IN  IF ~made.ok THEN [res |-> Rejected("create", made.errno), fs |-> f]
             ELSE IF ~written.ok
             THEN [res |-> Rejected("create", written.errno), fs |-> made.fs]
             ELSE [res |-> WriteResult(TRUE, "create", "true", "", "created",
                                       generateChecksum(content)),
                   fs |-> written.fs]

\* deleteFile without its dryRun branch
deleteFileAlways(f, absPath, dryRun) ==
    LET removed == FsUnlink(f, absPath)
    IN  IF ~fileExists(f, absPath)
        THEN [res |-> WriteError("delete", "NOT_FOUND"), fs |-> f]
        ELSE IF ~removed.ok THEN [res |-> Rejected("delete", removed.errno), fs |-> f]
        ELSE [res |-> WriteResult(TRUE, "delete", "true", "", "deleted", <<>>),
              fs |-> removed.fs]

deleteFile(f, absPath, dryRun) ==
    IF ~fileExists(f, absPath)
    THEN [res |-> WriteError("delete", "NOT_FOUND"), fs |-> f]
    ELSE IF dryRun
    THEN [res |-> WriteResult(TRUE, "delete", "false", "", "would_delete", <<>>),
          fs |-> f]
    ELSE LET removed == FsUnlink(f, absPath)
         IN  IF ~removed.ok THEN [res |-> Rejected("delete", removed.errno), fs |-> f]
             ELSE [res |-> WriteResult(TRUE, "delete", "true", "", "deleted", <<>>),
                   fs |-> removed.fs]

UpdateActions == {"replace", "insert_before", "insert_after", "delete_lines"}

\* updateFile naming the non-text error BINARY_FILE
UpdatePrecheckBinary(absPath, input) ==
    IF ~isTextFile(absPath) THEN "BINARY_FILE"
    ELSE IF input.action = "" THEN "MISSING_ACTION"
    ELSE ""

\* updateFile before its read: the checks made after the existence check
UpdatePrecheck(absPath, input) ==
    IF ~isTextFile(absPath) THEN "NOT_TEXT"
    ELSE IF input.action = "" THEN "MISSING_ACTION"
    ELSE ""

UpdateReturn(res) == [write |-> FALSE, res |-> res, newContent |-> <<>>]
UpdateWrite(res, newContent) == [write |-> TRUE, res |-> res, newContent |-> newContent]

\* the switch on input.action, for a resolved target
UpdateApply(input, currentContent, targetStart, targetEnd, patternMatch) ==
    LET content == input.content
        newContent ==
            CASE input.action = "replace" ->
                     IF Len(patternMatch) > 0
                     THEN SubSeq(currentContent, 1, patternMatch[1].index) \o content
                              \o DropFirst(currentContent,
                                     patternMatch[1].index + Len(patternMatch[1].text))
                     ELSE replaceLines(currentContent, targetStart, targetEnd, content)
              [] input.action = "insert_before" ->
                     insertBeforeLine(currentContent, targetStart, content)
              [] input.action = "insert_after" ->
                     insertAfterLine(currentContent, targetEnd, content)
              [] input.action = "delete_lines" ->
                     deleteLines(currentContent, targetStart, targetEnd)
        actionDescription ==
            CASE input.action = "replace" -> "replaced"
              [] input.action = "insert_before" -> "inserted_before"
              [] input.action = "insert_after" -> "inserted_after"
              [] input.action = "delete_lines" -> "deleted_lines"
    IN  IF input.action \notin UpdateActions
        THEN UpdateReturn(WriteError("update", "INVALID_ACTION"))
        ELSE IF input.dryRun
        THEN UpdateReturn(WriteResult(TRUE, "update", "false", "",
                                      "would_" \o actionDescription, <<>>))
        ELSE UpdateWrite(WriteResult(TRUE, "update", "true", "", actionDescription,
                                     generateChecksum(newContent)),
                         newContent)

\* updateFile after its checksum check: the target named by lines or by
\* pattern, then the action
UpdateTarget(input, currentContent) ==
    LET range == parseLineRange(input.lines)
        lines == SplitLines(currentContent)
        all == replaceAllMatches(currentContent, input.pattern, input.content)
        matchResult == findUniqueMatch(currentContent, input.pattern)
    IN  IF input.lines # <<>>
        THEN IF ~range.ok THEN UpdateReturn(WriteError("update", "INVALID_RANGE"))
             ELSE IF range.start > Len(lines)
             THEN UpdateReturn(WriteError("update", "OUT_OF_RANGE"))
             ELSE UpdateApply(input, currentContent, range.start,
                              Min(range.end, Len(lines)), <<>>)
        ELSE IF input.pattern # <<>>
        THEN IF input.replaceAll /\ input.action = "replace"
             THEN IF all.count = 0
                  THEN UpdateReturn(WriteError("update", "PATTERN_NOT_FOUND"))
                  ELSE IF input.dryRun
                  THEN UpdateReturn(WriteResult(TRUE, "update", "false", "",
                                                "would_replace_all", <<>>))
                  ELSE UpdateWrite(WriteResult(TRUE, "update", "true", "",
                                               "replaced_all",
                                               generateChecksum(all.newContent)),
                                   all.newContent)
             ELSE IF matchResult.error = "not_found"
             THEN UpdateReturn(WriteError("update", "PATTERN_NOT_FOUND"))
             ELSE IF matchResult.error = "multiple"
             THEN UpdateReturn(WriteError("update", "MULTIPLE_MATCHES"))
             ELSE UpdateApply(input, currentContent, matchResult.match[1].line,
                              matchResult.match[1].line
                                  + Len(SplitLines(matchResult.match[1].text)) - 1,
                              matchResult.match)
        ELSE UpdateReturn(WriteError("update", "NO_TARGET"))

\* updateFile taking replaceAll to mean 'replace' whatever the action
UpdatePlanReplaceAllAnyAction(input, currentContent) ==
    IF input.checksum # <<>> /\ input.checksum # generateChecksum(currentContent)
    THEN UpdateReturn(WriteError("update", "CHECKSUM_MISMATCH"))
    ELSE UpdateTarget([input EXCEPT !.action = IF input.replaceAll /\ input.lines = <<>>
                                               THEN "replace" ELSE @],
                      currentContent)

\* updateFile without the comparison of input.checksum with the current checksum
UpdatePlanUnchecked(input, currentContent) == UpdateTarget(input, currentContent)

\* updateFile resolving its target before it compares the checksums
UpdatePlanTargetFirst(input, currentContent) ==
    LET target == UpdateTarget(input, currentContent)
    IN  IF ~target.write /\ ~target.res.success THEN target
        ELSE IF input.checksum # <<>> /\ input.checksum # generateChecksum(currentContent)
        THEN UpdateReturn(WriteError("update", "CHECKSUM_MISMATCH"))
        ELSE target

\* updateFile from the content it read to its write: the envelope it returns
\* without writing, or the content it goes on to write
UpdatePlan(input, currentContent) ==
    IF input.checksum # <<>> /\ input.checksum # generateChecksum(currentContent)
    THEN UpdateReturn(WriteError("update", "CHECKSUM_MISMATCH"))
    ELSE UpdateTarget(input, currentContent)

updateFile(f, absPath, input) ==
    LET pre == UpdatePrecheck(absPath, input)
        read == FsReadFile(f, absPath)
        plan == UpdatePlan(input, read.content)
        written == FsWriteFile(f, absPath, plan.newContent)
    IN  IF ~fileExists(f, absPath)
        THEN [res |-> WriteError("update", "NOT_FOUND"), fs |-> f]
        ELSE IF pre # "" THEN [res |-> WriteError("update", pre), fs |-> f]
        ELSE IF ~read.ok THEN [res |-> Rejected("update", read.errno), fs |-> f]
        ELSE IF ~plan.write THEN [res |-> plan.res, fs |-> f]
        ELSE IF ~written.ok THEN [res |-> Rejected("update", written.errno), fs |-> f]
        ELSE [res |-> plan.res, fs |-> written.fs]

\* fs_write.execute
FsWriteExecute(f, args) ==
    LET resolved == ExecuteResolve(args.path)
    IN  IF ~resolved.success
        THEN [res |-> WriteResult(FALSE, "", "absent", "INVALID_PATH", "", <<>>),
              fs |-> f]
        ELSE IF args.operation = "create"
        THEN IF args.content = <<>>
             THEN [res |-> WriteResult(FALSE, "create", "absent", "MISSING_CONTENT",
                                       "", <<>>),
                   fs |-> f]
             ELSE createFile(f, resolved.absolutePath, args.content, args.dryRun)
        ELSE IF args.operation = "delete"
        THEN deleteFile(f, resolved.absolutePath, args.dryRun)
        ELSE IF args.operation = "update"
        THEN updateFile(f, resolved.absolutePath, args)
        ELSE [res |-> WriteResult(FALSE, "", "absent", "INVALID_OPERATION", "", <<>>),
              fs |-> f]

(***************************************************************************)
(* diff.js: generateDiff on the lines of the two contents (the arrays that *)
(* split('\n') gives).  A hunk keeps the four numbers of its @@ header and *)
(* its lines, each a tag (" ", "-" or "+") before the text of the line.    *)
(***************************************************************************)
DiffContext == 3

\* array[k] for a 0-based k; undefined outside the array
LineAt(lines, k) ==
    IF k >= 0 /\ k < Len(lines) THEN lines[k + 1] ELSE <<"undefined">>

\* the first index pair from (i, j) at which the lines differ or one array ends
RECURSIVE SkipCommon(_, _, _, _)
SkipCommon(oldLines, newLines, i, j) ==
    IF i < Len(oldLines) /\ j < Len(newLines) /\ LineAt(oldLines, i) = LineAt(newLines, j)
    THEN SkipCommon(oldLines, newLines, i + 1, j + 1)
    ELSE [i |-> i, j |-> j]

\* the loop that looks for the end of a hunk
RECURSIVE HunkEnd(_, _, _, _, _)
HunkEnd(oldLines, newLines, oldEnd, newEnd, contextAfter) ==
    IF ~(oldEnd < Len(oldLines) \/ newEnd < Len(newLines))
    THEN [oldEnd |-> oldEnd, newEnd |-> newEnd, contextAfter |-> contextAfter]
    ELSE IF /\ oldEnd < Len(oldLines)
            /\ newEnd < Len(newLines)
            /\ LineAt(oldLines, oldEnd) = LineAt(newLines, newEnd)
    THEN IF contextAfter + 1 >= DiffContext
         THEN [oldEnd |-> oldEnd, newEnd |-> newEnd, contextAfter |-> contextAfter + 1]
         ELSE HunkEnd(oldLines, newLines, oldEnd + 1, newEnd + 1, contextAfter + 1)
    ELSE LET oldNext ==
                 IF /\ oldEnd < Len(oldLines)
                    /\ (newEnd >= Len(newLines)
                          \/ LineAt(oldLines, oldEnd) # LineAt(newLines, newEnd))
                 THEN oldEnd + 1 ELSE oldEnd
             newNext ==
                 IF /\ newEnd < Len(newLines)
                    /\ (oldNext >= Len(oldLines)
                          \/ LineAt(oldLines, oldNext - 1) # LineAt(newLines, newEnd))
                 THEN newEnd + 1 ELSE newEnd
         IN  HunkEnd(oldLines, newLines, oldNext, newNext, 0)

\* the lines array[from .. to - 1] (0-based), each behind the tag
Tagged(tag, lines, from, to) ==
    [k \in 1..Max(0, to - from) |-> <<tag>> \o LineAt(lines, from + k - 1)]

RECURSIVE DiffHunks(_, _, _, _, _)
DiffHunks(oldLines, newLines, i0, j0, hunks) ==
    LET at == SkipCommon(oldLines, newLines, i0, j0)
        i == at.i
        j == at.j
        hunkStartOld == Max(0, i - DiffContext)
        hunkStartNew == Max(0, j - DiffContext)
        end == HunkEnd(oldLines, newLines, i, j, 0)
        oldEnd == end.oldEnd
        newEnd == end.newEnd
        contextAfter == end.contextAfter
        hunkLines ==
            Tagged(" ", oldLines, hunkStartOld, i)
                \o Tagged("-", oldLines, i, oldEnd - contextAfter)
                \o Tagged("+", newLines, j, newEnd - contextAfter)
                \o Tagged(" ", oldLines, oldEnd - contextAfter,
                          Min(oldEnd, Len(oldLines)))
        hunk == [oldStart |-> hunkStartOld + 1, oldCount |-> oldEnd - hunkStartOld,
                 newStart |-> hunkStartNew + 1, newCount |-> newEnd - hunkStartNew,
                 lines |-> hunkLines]
    IN  IF ~(i0 < Len(oldLines) \/ j0 < Len(newLines)) THEN hunks
        ELSE IF i >= Len(oldLines) /\ j >= Len(newLines) THEN hunks
        ELSE DiffHunks(oldLines, newLines, oldEnd, newEnd,
                       IF Len(hunkLines) > 0 THEN Append(hunks, hunk) ELSE hunks)

\* generateDiff: the '(no changes)' sentinel, or the hunks under the two
\* file-name lines
generateDiff(oldLines, newLines) ==
    LET hunks == DiffHunks(oldLines, newLines, 0, 0, <<>>)
    IN  [done |-> TRUE, noChanges |-> Len(hunks) = 0, hunks |-> hunks]

DEFAULT_IGNORE ==
    << <<".", "*">>,
       <<"n","o","d","e","_","m","o","d","u","l","e","s">>,
       <<"T","h","u","m","b","s",".","d","b">>,
       <<"*", ".", "s", "w", "p">>,
       <<"*", ".", "s", "w", "o">>,
       <<"*", "~">> >>

\* the offsets at which a match of the translated glob can end when it
\* starts at offset i of the path: '**' is '.*', '*' is '[^/]*', '?' is
\* '[^/]', every other character (a dot, '!' and '/' too) stands for itself.
\* Globs are over letters, digits and . _ ~ ! / * ? only.
RECURSIVE RegexEnds(_, _, _)
RegexEnds(glob, str, i) ==
    IF Len(glob) = 0 THEN {i}
    ELSE IF Len(glob) >= 2 /\ glob[1] = "*" /\ glob[2] = "*"
    THEN UNION {RegexEnds(SubSeq(glob, 3, Len(glob)), str, j) : j \in i..Len(str)}
    ELSE IF glob[1] = "*"
    THEN UNION {RegexEnds(Tail(glob), str, j) :
                   j \in {t \in i..Len(str) : \A u \in (i + 1)..t : str[u] # "/"}}
    ELSE IF glob[1] = "?"
    THEN IF i < Len(str) /\ str[i + 1] # "/"
         THEN RegexEnds(Tail(glob), str, i + 1) ELSE {}
    ELSE IF i < Len(str) /\ str[i + 1] = glob[1]
         THEN RegexEnds(Tail(glob), str, i + 1) ELSE {}

\* globToRegex: '(^|/)' glob '(/.*)?$', and for a pattern that ends in '/'
\* the translation without its last two characters followed by '(/.*)?$',
\* with nothing in front (modelled for a plain character before the '/')
globToRegex(pattern) ==
    IF EndsWith(pattern, <<"/">>)
    THEN [anchored |-> FALSE, body |-> SubSeq(pattern, 1, Len(pattern) - 2)]
    ELSE [anchored |-> TRUE, body |-> pattern]

\* regex.test(relativePath)
RegexTest(regex, str) ==
    LET starts == IF regex.anchored
                  THEN {0} \cup {i \in 1..Len(str) : str[i] = "/"}
                  ELSE 0..Len(str)
    IN  \E i \in starts : \E t \in RegexEnds(regex.body, str, i) :
            t = Len(str) \/ str[t + 1] = "/"

\* createIgnoreMatcher(patterns).isIgnored(relativePath)
RECURSIVE IgnoredAfter(_, _, _)
IgnoredAfter(allPatterns, relativePath, ignored) ==
    IF Len(allPatterns) = 0 THEN ignored
    ELSE LET p == Head(allPatterns)
             negated == StartsWith(p, <<"!">>)
         IN  IgnoredAfter(Tail(allPatterns), relativePath,
                          IF RegexTest(globToRegex(p), relativePath)
                          THEN ~negated ELSE ignored)

isIgnored(patterns, relativePath) ==
    IgnoredAfter(DEFAULT_IGNORE \o patterns, relativePath, FALSE)

(***************************************************************************)
(* ignore.js, for a directory that holds no .gitignore and no .ignore      *)
(* file: the rules are DEFAULT_IGNORE, each compiled by globToRegex to an  *)
(* expression that tests one segment of the relative path                  *)
(***************************************************************************)
DefaultIgnored(relativePath) ==
    LET segs == SplitOn(relativePath, {Sep})
    IN  \E k \in 1..Len(segs) :
            \/ StartsWith(segs[k], <<".">>)                               \* .*
            \/ segs[k] = <<"n","o","d","e","_","m","o","d","u","l","e","s">>
            \/ segs[k] = <<"T","h","u","m","b","s",".","d","b">>
            \/ EndsWith(segs[k], <<".","s","w","p">>)                     \* *.swp
            \/ EndsWith(segs[k], <<".","s","w","o">>)                     \* *.swo
            \/ EndsWith(segs[k], <<"~">>)                                 \* *~

(***************************************************************************)
(* file-search.js                                                          *)
(***************************************************************************)
ALWAYS_EXCLUDE == {
    <<".","g","i","t">>, <<"n","o","d","e","_","m","o","d","u","l","e","s">>,
    <<".","s","v","e","l","t","e","-","k","i","t">>, <<".","n","e","x","t">>,
    <<".","n","u","x","t">>, <<"_","_","p","y","c","a","c","h","e","_","_">>,
    <<"t","a","r","g","e","t">>, <<"d","i","s","t">>,
    <<".","a","g","e","n","t","-","d","a","t","a">>
}

\* the 0-based positions at which the characters of the query are found,
\* scanning the target once from the left
RECURSIVE FuzzyIndices(_, _, _, _)
FuzzyIndices(queryLower, targetLower, i, indices) ==
    IF i >= Len(targetLower) \/ Len(indices) >= Len(queryLower) THEN indices
    ELSE IF targetLower[i + 1] = queryLower[Len(indices) + 1]
    THEN FuzzyIndices(queryLower, targetLower, i + 1, Append(indices, i))
    ELSE FuzzyIndices(queryLower, targetLower, i + 1, indices)

RECURSIVE SumTo(_, _)
SumTo(f, n) == IF n = 0 THEN 0 ELSE f[n] + SumTo(f, n - 1)

fuzzyMatch(query, target) ==
    LET queryLower == ToLowerCase(query)
        targetLower == ToLowerCase(target)
        indices == FuzzyIndices(queryLower, targetLower, 0, <<>>)
        bonus == [i \in 1..Len(indices) |->
                    (IF i > 1 /\ indices[i - 1] = indices[i] - 1 THEN 10 ELSE 0)
                  + (IF indices[i] = 0 \/ targetLower[indices[i]] \in {"/", "_", "-"}
                     THEN 5 ELSE 0)]
    IN  [matched |-> Len(indices) = Len(queryLower),
         score |-> SumTo(bonus, Len(indices)) - Len(SplitOn(target, {"/"})) * 2]

\* the entries the walk collects below the directory root
WalkEntries(f, root, includeDirectories, maxDepth) ==
    LET rel(p) == DropFirst(p, Len(root) + 1)
        segsOf(p) == SplitOn(rel(p), {Sep})
        visited(p) ==
            /\ StartsWith(p, root \o <<Sep>>)
            /\ NodeAt(f, root).kind = "dir"
            /\ Len(segsOf(p)) - 1 <= maxDepth
            /\ \A k \in 1..Len(segsOf(p)) :
                   /\ ~StartsWith(segsOf(p)[k], <<".">>)
                   /\ segsOf(p)[k] \notin ALWAYS_EXCLUDE
            /\ ~DefaultIgnored(rel(p))
            \* readdir resolved for every directory on the way down
            /\ \A k \in 1..(Len(segsOf(p)) - 1) :
                   NodeAt(f, root \o <<Sep>>
                                 \o JoinWith(SubSeq(segsOf(p), 1, k), <<Sep>>)).kind = "dir"
    IN  {[relativePath |-> rel(p), fileName |-> Basename(p),
          isDirectory |-> f[p].kind \in {"dir", "locked"}] :
            p \in {q \in DOMAIN f :
                     /\ visited(q)
                     /\ \/ f[q].kind \in {"file", "unreadable"}
                        \/ (f[q].kind \in {"dir", "locked"} /\ includeDirectories)}}

\* the score searchFiles gives an entry; matched is false when the entry is
\* dropped
ScoreEntry(entry, query) ==
    LET queryLower == Trim(ToLowerCase(query))
        nameMatch == fuzzyMatch(queryLower, entry.fileName)
        pathMatch == fuzzyMatch(queryLower, entry.relativePath)
    IN  IF queryLower = <<>>
        THEN [matched |-> TRUE,
              score |-> 100 - Len(SplitOn(entry.relativePath, {"/"})) * 10]
        ELSE [matched |-> nameMatch.matched \/ pathMatch.matched,
              score |-> (IF nameMatch.matched THEN nameMatch.score ELSE -1000) * 2
                          + (IF pathMatch.matched THEN pathMatch.score ELSE 0)]

\* searchFiles: the sets of entries it can return. The sort is by score;
\* entries of equal score keep the order readdir listed them in, which the
\* file system chooses, so a cut through equal scores may keep any of them.
searchFiles(f, root, query, maxResults, includeDirectories, maxDepth) ==
    LET entries == WalkEntries(f, root, includeDirectories, maxDepth)
        scored == {e \in entries : ScoreEntry(e, query).matched}
        size == Min(maxResults, Cardinality(scored))
    IN  {kept \in SUBSET scored :
            /\ Cardinality(kept) = size
            /\ \A e \in kept : \A d \in scored \ kept :
                   ScoreEntry(e, query).score >= ScoreEntry(d, query).score}

AutoResolveMaxResults == 10
SearchMaxDepth == 10

\* tryAutoResolve: its possible outcomes, one for each result of searchFiles
tryAutoResolve(f, root, relativePath) ==
    LET fileName == Basename(relativePath)
        fileNameLower == ToLowerCase(fileName)
        none == [resolved |-> FALSE, resolvedPath |-> <<>>, candidates |-> {},
                 ambiguous |-> FALSE]
        outcome(results) ==
            LET matches == {e \in results :
                              ~e.isDirectory /\ ToLowerCase(e.fileName) = fileNameLower}
            IN  IF Cardinality(matches) = 0 THEN none
                ELSE IF Cardinality(matches) = 1
                THEN [resolved |-> TRUE,
                      resolvedPath |-> (CHOOSE m \in matches : TRUE).relativePath,
                      candidates |-> {m.relativePath : m \in matches},
                      ambiguous |-> FALSE]
                ELSE [resolved |-> FALSE, resolvedPath |-> <<>>,
                      candidates |-> {m.relativePath : m \in matches},
                      ambiguous |-> TRUE]
    IN  IF fileName = <<>> THEN {none}
        ELSE {outcome(results) :
                results \in searchFiles(f, root, fileName, AutoResolveMaxResults,
                                        FALSE, SearchMaxDepth)}

(***************************************************************************)
(* fs-read.js                                                              *)
(***************************************************************************)
PREVIEW_LINES == 100
SearchMaxMatches == 100

\* the JSON result of fs_read; the fields a result lacks are empty
ReadResult(success, type, code, path) ==
    [outcome |-> "returned", success |-> success, type |-> type, code |-> code,
     path |-> path, text |-> <<>>, checksum |-> <<>>, totalLines |-> 0,
     range |-> <<>>, truncated |-> FALSE, candidates |-> {}, matchCount |-> 0]

ReadRejected(errno) ==
    [ReadResult(FALSE, "", errno, <<>>) EXCEPT !.outcome = "thrown"]

\* readFile truncating a file of exactly PREVIEW_LINES lines too
readFilePreviewAtLimit(f, absPath, relativePath, linesArg) ==
    LET read == FsReadFile(f, absPath)
        content == read.content
        checksum == generateChecksum(content)
        totalLines == Len(SplitLines(content))
        parsedRange == parseLineRange(linesArg)
        ranged == extractLines(content, parsedRange.start, parsedRange.end)
        preview == extractLines(content, 1, PREVIEW_LINES)
        ok == [ReadResult(TRUE, "file", "", relativePath) EXCEPT
                  !.checksum = checksum, !.totalLines = totalLines]
    IN  IF ~isTextFile(absPath) THEN ReadResult(FALSE, "file", "NOT_TEXT", relativePath)
        ELSE IF ~read.ok
        THEN IF read.errno = "ENOENT"
             THEN ReadResult(FALSE, "file", "NOT_FOUND", relativePath)
             ELSE ReadResult(FALSE, "file", "IO_ERROR", relativePath)
        ELSE IF linesArg # <<>>
        THEN IF ~parsedRange.ok
             THEN ReadResult(FALSE, "file", "INVALID_RANGE", relativePath)
             ELSE [ok EXCEPT !.text = addLineNumbers(ranged.text, ranged.actualStart),
                             !.range = <<ranged.actualStart, ranged.actualEnd>>]
        ELSE IF totalLines >= PREVIEW_LINES
        THEN [ok EXCEPT !.text = addLineNumbers(preview.text, 1),
                        !.truncated = TRUE,
                        !.range = <<1, PREVIEW_LINES>>]
        ELSE [ok EXCEPT !.text = addLineNumbers(content, 1)]

readFile(f, absPath, relativePath, linesArg) ==
    LET read == FsReadFile(f, absPath)
        content == read.content
        checksum == generateChecksum(content)
        totalLines == Len(SplitLines(content))
        parsedRange == parseLineRange(linesArg)
        ranged == extractLines(content, parsedRange.start, parsedRange.end)
        preview == extractLines(content, 1, PREVIEW_LINES)
        ok == [ReadResult(TRUE, "file", "", relativePath) EXCEPT
                  !.checksum = checksum, !.totalLines = totalLines]
    IN  IF ~isTextFile(absPath) THEN ReadResult(FALSE, "file", "NOT_TEXT", relativePath)
        ELSE IF ~read.ok
        THEN IF read.errno = "ENOENT"
             THEN ReadResult(FALSE, "file", "NOT_FOUND", relativePath)
             ELSE ReadResult(FALSE, "file", "IO_ERROR", relativePath)
        ELSE IF linesArg # <<>>
        THEN IF ~parsedRange.ok
             THEN ReadResult(FALSE, "file", "INVALID_RANGE", relativePath)
             ELSE [ok EXCEPT !.text = addLineNumbers(ranged.text, ranged.actualStart),
                             !.range = <<ranged.actualStart, ranged.actualEnd>>]
        ELSE IF totalLines > PREVIEW_LINES
        THEN [ok EXCEPT !.text = addLineNumbers(preview.text, 1),
                        !.truncated = TRUE,
                        !.range = <<1, PREVIEW_LINES>>]
        ELSE [ok EXCEPT !.text = addLineNumbers(content, 1)]

searchInSingleFile(f, absPath, relativePath, searchPattern) ==
    LET read == FsReadFile(f, absPath)
    IN  IF ~isTextFile(absPath)
        THEN ReadResult(FALSE, "search", "NOT_TEXT", relativePath)
        ELSE IF ~read.ok THEN ReadRejected(read.errno)
        ELSE [ReadResult(TRUE, "search", "", relativePath) EXCEPT
                 !.matchCount = Len(findMatches(read.content, searchPattern,
                                                SearchMaxMatches))]

\* fs_read.execute: the results it can return (more than one only where
\* tryAutoResolve has more than one outcome)
FsReadExecute(f, args) ==
    LET resolved == ExecuteResolve(args.path)
        absolutePath == resolved.absolutePath
        virtualPath == resolved.virtualPath
        stat == FsStat(f, absolutePath)
        redirect(autoResolve) ==
            readFile(f, Root \o <<Sep>> \o autoResolve.resolvedPath,
                     autoResolve.resolvedPath, args.lines)
    IN  IF ~resolved.success THEN {ReadResult(FALSE, "", "INVALID_PATH", args.path)}
        ELSE IF stat = "none"
        THEN {IF autoResolve.resolved /\ autoResolve.resolvedPath # <<>>
              THEN redirect(autoResolve)
              ELSE IF autoResolve.ambiguous
              THEN [ReadResult(FALSE, "", "AMBIGUOUS", virtualPath) EXCEPT
                       !.candidates = autoResolve.candidates]
              ELSE ReadResult(FALSE, "file", "NOT_FOUND", virtualPath) :
                autoResolve \in tryAutoResolve(f, Root, virtualPath)}
        ELSE IF args.find # <<>> THEN {ReadResult(TRUE, "directory", "", virtualPath)}
        ELSE IF args.pattern # <<>>
        THEN IF stat = "file"
             THEN {searchInSingleFile(f, absolutePath, virtualPath, args.pattern)}
             ELSE {ReadResult(TRUE, "search", "", virtualPath)}
        ELSE IF stat = "dir" THEN {ReadResult(TRUE, "directory", "", virtualPath)}
        ELSE IF stat = "file" THEN {readFile(f, absolutePath, virtualPath, args.lines)}
        ELSE {ReadResult(FALSE, "", "INVALID_TYPE", virtualPath)}

(***************************************************************************)
(* fs-read.js: the directory walks of listDirectory and searchInDirectory  *)
(*                                                                         *)
(* Beside files and directories a tree can hold entries on which one call  *)
(* of the file system fails: a "locked" directory (stat resolves, readdir  *)
(* rejects), a "broken" entry (readdir of its parent lists it, stat        *)
(* rejects) and an "unreadable" file (stat resolves, readFile rejects).    *)
(* The order in which readdir lists a directory is the file system's: it   *)
(* is given as a sequence of all paths.  The listed directory holds no     *)
(* .gitignore and no .ignore, so the ignore matcher has the default rules. *)
(***************************************************************************)
\* fs.readdir(dir): the paths of the entries of dir, in the given order
WalkReaddir(f, order, dir) ==
    LET IsChild(p) == p \in DOMAIN f /\ f[p].kind # "none" /\ p # dir /\ Dirname(p) = dir
    IN  IF NodeAt(f, dir).kind = "dir"
        THEN [ok |-> TRUE, items |-> SelectSeq(order, IsChild)]
        ELSE [ok |-> FALSE, items |-> <<>>]

\* fs.stat(itemPath): "dir", "file", or "none" when it rejects
WalkStat(f, p) ==
    LET kind == NodeAt(f, p).kind
    IN  IF kind \in {"dir", "locked"} THEN "dir"
        ELSE IF kind \in {"file", "unreadable"} THEN "file"
        ELSE "none"

\* path.join(relDir, item)
JoinRel(relDir, item) == IF relDir = <<>> THEN item ELSE relDir \o <<Sep>> \o item

DefaultMaxFiles == 500

RECURSIVE ListWalk(_, _, _, _, _, _, _, _)
RECURSIVE ListItems(_, _, _, _, _, _, _, _, _)
RECURSIVE ListItemsUntilFailure(_, _, _, _, _, _, _, _, _)

\* the loop over the items of one directory that ends at the first item
\* whose stat rejects
ListItemsUntilFailure(f, order, items, dir, relDir, currentDepth, depth, maxFiles, st) ==
    IF Len(items) = 0 THEN st
    ELSE IF Len(st.entries) >= maxFiles THEN [st EXCEPT !.truncated = TRUE]
    ELSE LET itemPath == Head(items)
             itemRelPath == JoinRel(relDir, Basename(itemPath))
             rest(next) == ListItemsUntilFailure(f, order, Tail(items), dir, relDir,
                                                 currentDepth, depth, maxFiles, next)
             pushed(kind) == [st EXCEPT !.entries =
                                 Append(@, [path |-> itemRelPath, kind |-> kind])]
         IN  IF isIgnored(<<>>, itemRelPath) THEN rest(st)
             ELSE IF WalkStat(f, itemPath) = "none" THEN st
             ELSE IF WalkStat(f, itemPath) = "dir"
             THEN rest(IF currentDepth < depth
                       THEN ListWalk(f, order, itemPath, itemRelPath, currentDepth + 1,
                                     depth, maxFiles, pushed("directory"))
                       ELSE pushed("directory"))
             ELSE rest(pushed("file"))

\* the loop of walk over the items of one directory
ListItems(f, order, items, dir, relDir, currentDepth, depth, maxFiles, st) ==
    IF Len(items) = 0 THEN st
    ELSE IF Len(st.entries) >= maxFiles THEN [st EXCEPT !.truncated = TRUE]
    ELSE LET itemPath == Head(items)
             itemRelPath == JoinRel(relDir, Basename(itemPath))
             rest(next) == ListItems(f, order, Tail(items), dir, relDir, currentDepth,
                                     depth, maxFiles, next)
             pushed(kind) == [st EXCEPT !.entries =
                                 Append(@, [path |-> itemRelPath, kind |-> kind])]
         IN  IF isIgnored(<<>>, itemRelPath) THEN rest(st)
             ELSE IF WalkStat(f, itemPath) = "none" THEN rest(st)
             ELSE IF WalkStat(f, itemPath) = "dir"
             THEN rest(IF currentDepth < depth
                       THEN ListWalk(f, order, itemPath, itemRelPath, currentDepth + 1,
                                     depth, maxFiles, pushed("directory"))
                       ELSE pushed("directory"))
             ELSE rest(pushed("file"))

\* walk of listDirectory returning at the cap without setting truncated
ListWalkSilent(f, order, dir, relDir, currentDepth, depth, maxFiles, st) ==
    LET read == WalkReaddir(f, order, dir)
    IN  IF currentDepth > depth \/ Len(st.entries) >= maxFiles THEN st
        ELSE IF ~read.ok THEN st
        ELSE ListItems(f, order, read.items, dir, relDir, currentDepth, depth,
                       maxFiles, st)

\* walk(dir, relDir, currentDepth) of listDirectory
ListWalk(f, order, dir, relDir, currentDepth, depth, maxFiles, st) ==
    LET read == WalkReaddir(f, order, dir)
    IN  IF currentDepth > depth \/ Len(st.entries) >= maxFiles
        THEN [st EXCEPT !.truncated = Len(st.entries) >= maxFiles]
        ELSE IF ~read.ok THEN st
        ELSE ListItems(f, order, read.items, dir, relDir, currentDepth, depth,
                       maxFiles, st)

\* listDirectory(absPath, relativePath, depth, {maxFiles}); maxFiles is 0
\* when the option is not given
listDirectory(f, order, absPath, relativePath, depth, optMaxFiles) ==
    ListWalk(f, order, absPath,
             IF relativePath = <<".">> THEN <<>> ELSE relativePath,
             1, depth,
             IF optMaxFiles = 0 THEN DefaultMaxFiles ELSE optMaxFiles,
             [entries |-> <<>>, truncated |-> FALSE])

DefaultSearchDepth == 5

RECURSIVE SearchWalk(_, _, _, _, _, _, _, _, _)
RECURSIVE SearchItems(_, _, _, _, _, _, _, _, _)

\* the loop of walk over the items of one directory, in searchInDirectory
SearchItems(f, order, items, relDir, currentDepth, depth, searchPattern, maxMatches, matches) ==
    IF Len(items) = 0 \/ Len(matches) >= maxMatches THEN matches
    ELSE LET itemPath == Head(items)
             itemRelPath == JoinRel(relDir, Basename(itemPath))
             rest(next) == SearchItems(f, order, Tail(items), relDir, currentDepth,
                                       depth, searchPattern, maxMatches, next)
             fileMatches == findMatches(f[itemPath].content, searchPattern,
                                        maxMatches - Len(matches))
         IN  IF isIgnored(<<>>, itemRelPath) THEN rest(matches)
             ELSE IF WalkStat(f, itemPath) = "dir"
             THEN rest(SearchWalk(f, order, itemPath, itemRelPath, currentDepth + 1,
                                  depth, searchPattern, maxMatches, matches))
             ELSE IF WalkStat(f, itemPath) = "file" /\ isTextFile(itemPath)
                     /\ f[itemPath].kind = "file"
             THEN rest(matches \o [k \in 1..Len(fileMatches) |->
                           [file |-> itemRelPath, line |-> fileMatches[k].line,
                            text |-> fileMatches[k].text]])
             ELSE rest(matches)

\* walk(dir, relDir, currentDepth) of searchInDirectory
SearchWalk(f, order, dir, relDir, currentDepth, depth, searchPattern, maxMatches, matches) ==
    LET read == WalkReaddir(f, order, dir)
    IN  IF currentDepth > depth \/ Len(matches) >= maxMatches THEN matches
        ELSE IF ~read.ok THEN matches
        ELSE SearchItems(f, order, read.items, relDir, currentDepth, depth,
                         searchPattern, maxMatches, matches)

\* searchInDirectory(absPath, relativePath, searchPattern, {}) for a literal
\* pattern
searchInDirectory(f, order, absPath, relativePath, searchPattern, depth) ==
    LET matches == SearchWalk(f, order, absPath,
                              IF relativePath = <<".">> THEN <<>> ELSE relativePath,
                              1, depth, searchPattern, SearchMaxMatches,
                              <<>>)
    IN  [success |-> TRUE, type |-> "search", matches |-> matches,
         matchCount |-> Len(matches)]

(***************************************************************************)
(* Specification Spec: fs_write and fs_read calls made one after another   *)
(* on a workspace that starts empty                                        *)
(***************************************************************************)
MaxContentLen == 4

XMd == <<"x", ".", "m", "d">>
XMdD == XMd \o <<Sep, "d">>
Outside == <<".", ".", Sep>> \o XMd

\* the paths of the modelled workspace: a name with a text extension, which
\* can become a text file or a directory, and a name without extension
\* inside it
Places == {Root, Root \o <<Sep>> \o XMd, Root \o <<Sep>> \o XMdD}

EmptyTree == [p \in Places |-> IF p = Root THEN DirNode ELSE NoNode]

ContentA == <<"a", "a", NL, "b">>
ContentB == <<"b">>

WriteArgs(path, operation, action, content, lines, pattern, replaceAll, checksum, dryRun) ==
    [path |-> path, operation |-> operation, action |-> action, content |-> content,
     lines |-> lines, pattern |-> pattern, replaceAll |-> replaceAll,
     checksum |-> checksum, dryRun |-> dryRun]

\* line ranges: inside ContentA, ending past it, starting past it, malformed
LinesArgs == {<<"2">>, <<"2", "-", "9">>, <<"9">>, <<"x">>}
\* patterns found twice, once and never in ContentA
PatternArgs == {<<"a">>, <<"b">>, <<"z">>}
ActionArgs == UpdateActions \cup {"", "append"}
ChecksumArgs == {<<>>, generateChecksum(ContentA)}

UpdateTargets ==
    {[lines |-> l, pattern |-> <<>>, replaceAll |-> FALSE] : l \in LinesArgs \cup {<<>>}}
    \cup {[lines |-> <<>>, pattern |-> p, replaceAll |-> FALSE] : p \in PatternArgs}
    \cup {[lines |-> <<>>, pattern |-> p, replaceAll |-> TRUE] : p \in {<<"a">>, <<"z">>}}
    \cup {[lines |-> <<"2">>, pattern |-> <<"a">>, replaceAll |-> TRUE]}

WriteRequests ==
    \* updates of the text file: every action on every target
    {WriteArgs(XMd, "update", a, <<"c">>, t.lines, t.pattern, t.replaceAll, c, d) :
        a \in ActionArgs, t \in UpdateTargets, c \in ChecksumArgs, d \in BOOLEAN}
    \* updates without content
    \cup {WriteArgs(XMd, "update", "replace", <<>>, t.lines, t.pattern, FALSE, <<>>, FALSE) :
        t \in {u \in UpdateTargets : u.lines \in {<<>>, <<"2">>} /\ u.pattern \in {<<>>, <<"b">>}}}
    \* creates of the text file, with either content and with none
    \cup {WriteArgs(XMd, "create", "", c, <<>>, <<>>, FALSE, <<>>, d) :
        c \in {<<>>, ContentA, ContentB}, d \in BOOLEAN}
    \* creates on the other paths
    \cup {WriteArgs(p, "create", "", ContentB, <<>>, <<>>, FALSE, <<>>, d) :
        p \in {XMdD, <<".">>, Outside}, d \in BOOLEAN}
    \* deletes, and an unknown operation
    \cup {WriteArgs(p, o, "", <<>>, <<>>, <<>>, FALSE, k, d) :
        p \in {XMd, XMdD, <<".">>, Outside}, o \in {"delete"},
        k \in ChecksumArgs, d \in BOOLEAN}
    \cup {WriteArgs(p, "move", "", ContentB, <<>>, <<>>, FALSE, <<>>, d) :
        p \in {XMd, Outside}, d \in BOOLEAN}
    \* updates of the other paths
    \cup {WriteArgs(p, "update", a, <<"c">>, <<"2">>, <<>>, FALSE, k, d) :
        p \in {XMdD, <<".">>, Outside},
        a \in {"", "replace"}, k \in ChecksumArgs, d \in BOOLEAN}

ReadArgs(path, pattern, find, lines) ==
    [path |-> path, pattern |-> pattern, find |-> find, lines |-> lines]

ReadRequests ==
    {ReadArgs(p, <<>>, <<>>, l) :
        p \in {XMd, XMdD, <<".">>, <<"q", Sep>> \o XMd, <<"q", Sep, "d">>, <<Sep>> \o XMd},
        l \in {<<>>, <<"2">>, <<"x">>}}
    \cup {ReadArgs(p, <<"a">>, <<>>, <<>>) : p \in {XMd, XMdD, <<".">>}}
    \cup {ReadArgs(p, <<>>, <<"x">>, <<>>) : p \in {XMd, <<".">>}}

Init ==
    /\ fs = EmptyTree
    /\ last = Pending
    /\ hist = Idle.hist /\ procs = Idle.procs
    /\ pureIn = Pending /\ pureOut = Pending

WithinBounds(f) == \A p \in DOMAIN f : Len(f[p].content) <= MaxContentLen

\* a call is made when the caller holds no unconsumed result
FsWrite(args) ==
    LET r == FsWriteExecute(fs, args)
    IN  /\ ~last.done
        /\ fs' = r.fs
        /\ last' = [done |-> TRUE, tool |-> "fs_write", args |-> args,
                    res |-> r.res, pre |-> fs]
        /\ UNCHANGED <<hist, procs, pureIn, pureOut>>

FsRead(args) ==
    \E res \in FsReadExecute(fs, args) :
        /\ ~last.done
        /\ last' = [done |-> TRUE, tool |-> "fs_read", args |-> args,
                    res |-> res, pre |-> fs]
        /\ UNCHANGED <<fs, hist, procs, pureIn, pureOut>>

\* the caller takes the result; the next call can be made
Return ==
    /\ last.done
    /\ last' = Pending
    /\ UNCHANGED <<fs, hist, procs, pureIn, pureOut>>

Next ==
    \/ \E args \in WriteRequests : FsWrite(args) /\ WithinBounds(fs')
    \/ \E args \in ReadRequests : FsRead(args)
    \/ Return

Spec == Init /\ [][Next]_vars

(***************************************************************************)
(* Properties of the calls of Spec                                         *)
(***************************************************************************)
LastWrite == last.done /\ last.tool = "fs_write"

\* the absolute path a call names, empty when resolvePath rejects it
CalledPath == LET resolved == ExecuteResolve(last.args.path)
              IN  IF resolved.success THEN resolved.absolutePath ELSE <<>>

\* the node the call named, as it was when the call was made
CalledNode == NodeAt(last.pre, CalledPath)

\* an update of an existing file whose checksum argument is not the checksum
\* of the file's content
StaleUpdate ==
    /\ LastWrite
    /\ last.args.operation = "update"
    /\ CalledNode.kind = "file"
    /\ last.args.checksum # <<>>
    /\ last.args.checksum # generateChecksum(CalledNode.content)

HasActionAndTarget ==
    /\ last.args.action # ""
    /\ last.args.lines # <<>> \/ last.args.pattern # <<>>

Refused ==
    /\ last.res.outcome = "returned"
    /\ last.res.code = "CHECKSUM_MISMATCH"
    /\ last.res.applied = "false"
    /\ fs = last.pre

\* C2 as stated: after any sequence of creates, updates and deletes, an
\* update with an action and a target whose checksum differs from the
\* checksum of the file's current content returns CHECKSUM_MISMATCH with
\* applied=false and leaves the content unchanged.
C2_StaleAnyFile == (StaleUpdate /\ HasActionAndTarget) => Refused

\* C2 amended: the same for an update of a text file; an update of a file
\* that is not a text file returns NOT_TEXT before its checksum is looked at.
C2_StaleTextFile ==
    (StaleUpdate /\ HasActionAndTarget /\ isTextFile(CalledPath)) => Refused

\* a stale update of a file whose content earlier updates have made is refused
C2_Witness ==
    /\ StaleUpdate /\ HasActionAndTarget /\ isTextFile(CalledPath)
    /\ CalledNode.content \notin {ContentA, ContentB}
    /\ last.args.action = "replace" /\ last.args.lines = <<"2">>
    /\ ~last.args.dryRun
    /\ Refused

NoAppliedField ==
    \/ last.res.outcome = "thrown"
    \/ /\ last.res.outcome = "returned"
       /\ last.res.applied = "absent"
       /\ last.res.code \in {"INVALID_PATH", "MISSING_CONTENT", "INVALID_OPERATION"}

C6_NeverRejects ==
    last.done =>
        /\ last.res.outcome = "returned"
        /\ last.res.success \/ last.res.code # ""

SixteenCodes ==
    {"INVALID_PATH", "NOT_FOUND", "AMBIGUOUS", "NOT_TEXT", "IO_ERROR",
     "INVALID_RANGE", "OUT_OF_RANGE", "PATTERN_NOT_FOUND", "MULTIPLE_MATCHES",
     "ALREADY_EXISTS", "MISSING_ACTION", "MISSING_CONTENT", "CHECKSUM_MISMATCH",
     "INVALID_ACTION", "INVALID_OPERATION", "INVALID_TYPE"}

ReturnedError == last.done /\ last.res.outcome = "returned" /\ ~last.res.success

\* C7 as stated: every error code fs_read or fs_write returns is one of the
\* sixteen enumerated codes, also for an update that names neither lines
\* nor a pattern.
C7_SixteenCodes == ReturnedError => last.res.code \in SixteenCodes

\* C7 amended: every error code fs_read or fs_write returns is one of the
\* sixteen enumerated codes or NO_TARGET, the code of an update that names
\* neither lines nor a pattern.
C7_SeventeenCodes == ReturnedError => last.res.code \in SixteenCodes \cup {"NO_TARGET"}

\* an update of a text file with an action and no target
C7_Witness ==
    /\ ReturnedError /\ LastWrite
    /\ last.args.action = "replace"
    /\ last.args.lines = <<>> /\ last.args.pattern = <<>>
    /\ last.res.code = "NO_TARGET"

NothingComputed ==
    /\ last.res.outcome = "returned"
    /\ last.res.code = "CHECKSUM_MISMATCH"
    /\ last.res.newChecksum = <<>>
    /\ last.res.action = ""

\* C8 as stated: in an update of an existing text file a supplied checksum
\* that differs from the checksum of the current content gives
\* CHECKSUM_MISMATCH whatever the other arguments are (action present,
\* missing or unknown; any line range; any pattern), and no transformation
\* is computed.
C8_ChecksumFirst == (StaleUpdate /\ isTextFile(CalledPath)) => NothingComputed

\* C8 amended: the same whenever an action is supplied, known or unknown; an
\* update without an action returns MISSING_ACTION before the file is read.
C8_ChecksumBeforeTarget ==
    (StaleUpdate /\ isTextFile(CalledPath) /\ last.args.action # "") => NothingComputed

\* a stale update with an unknown action and a malformed line range
C8_Witness ==
    /\ StaleUpdate /\ isTextFile(CalledPath)
    /\ last.args.action = "append" /\ last.args.lines = <<"x">>
    /\ NothingComputed

\* the 0-based offsets at which the pattern stands in the content, in order
OccurrenceOffsets(content, pattern) ==
    LET at == {i \in 0..(Len(content) - Len(pattern)) :
                 \A j \in 1..Len(pattern) : content[i + j] = pattern[j]}
        RECURSIVE sorted(_)
        sorted(S) == IF S = {} THEN <<>>
                     ELSE LET m == CHOOSE x \in S : \A y \in S : x <= y
                          IN  <<m>> \o sorted(S \ {m})
    IN  sorted(at)

\* the line an offset lies on: one more than the line feeds before it
LineOfOffset(content, offset) ==
    1 + Cardinality({i \in 1..offset : content[i] = NL})

\* the content with its characters at the given offsets cut out and the
\* replacement put in, offset by offset from the left
RECURSIVE Substituted(_, _, _, _, _)
Substituted(content, offsets, width, replacement, from) ==
    IF Len(offsets) = 0 THEN SubSeq(content, from + 1, Len(content))
    ELSE SubSeq(content, from + 1, Head(offsets)) \o replacement
             \o Substituted(content, Tail(offsets), width, replacement,
                            Head(offsets) + width)

\* an update of an existing text file that names a pattern and no lines
PatternUpdate ==
    /\ LastWrite
    /\ last.args.operation = "update"
    /\ CalledNode.kind = "file"
    /\ isTextFile(CalledPath)
    /\ last.args.lines = <<>>
    /\ last.args.pattern # <<>>

\* ... that gives an action and no stale checksum, so that updateFile goes
\* on to look for the pattern
PatternUpdateSearches ==
    /\ PatternUpdate
    /\ last.args.action # ""
    /\ last.args.checksum \in {<<>>, generateChecksum(CalledNode.content)}

PatternOffsets == OccurrenceOffsets(CalledNode.content, last.args.pattern)

ReplacesAll == last.args.replaceAll /\ last.args.action = "replace"

FailsWith(code) ==
    /\ last.res.outcome = "returned"
    /\ ~last.res.success
    /\ last.res.code = code
    /\ fs = last.pre

RangeUpdate ==
    /\ LastWrite
    /\ last.args.operation = "update"
    /\ CalledNode.kind = "file"
    /\ isTextFile(CalledPath)
    /\ last.args.action # ""
    /\ last.args.checksum \in {<<>>, generateChecksum(CalledNode.content)}
    /\ last.args.lines # <<>>
    /\ parseLineRange(last.args.lines).ok

CalledLines == SplitLines(CalledNode.content)
CalledRange == parseLineRange(last.args.lines)

\* the call stored the given lines as the content of the file it named
Stored(lines) ==
    /\ last.res.outcome = "returned" /\ last.res.success
    /\ last.res.applied = "true"
    /\ fs = [last.pre EXCEPT ![CalledPath] = FileNode(JoinLines(lines))]

\* C14: an update with a line range whose start is greater than the number
\* of lines of the file fails with OUT_OF_RANGE and leaves the file
\* unchanged; a range whose start is within the file and whose end is past
\* the last line N is treated as ending at line N: replace stores lines
\* 1..start-1 followed by the new content, delete_lines stores lines
\* 1..start-1.
C14_RangePastEnd ==
    /\ (RangeUpdate /\ CalledRange.start > Len(CalledLines))
           => FailsWith("OUT_OF_RANGE")
    /\ (RangeUpdate /\ CalledRange.start <= Len(CalledLines)
            /\ CalledRange.end > Len(CalledLines) /\ ~last.args.dryRun)
           => /\ last.args.action = "replace"
                  => Stored(SubSeq(CalledLines, 1, CalledRange.start - 1)
                                \o <<last.args.content>>)
              /\ last.args.action = "delete_lines"
                  => Stored(SubSeq(CalledLines, 1, CalledRange.start - 1))

\* lines 2-9 of a two-line file were deleted: line 1 is what is left
C14_Witness ==
    /\ RangeUpdate
    /\ last.args.lines = <<"2", "-", "9">>
    /\ last.args.action = "delete_lines"
    /\ ~last.args.dryRun
    /\ Len(CalledLines) = 2
    /\ Stored(<<CalledLines[1]>>)

\* a range that starts past the end of the file was refused
C14_WitnessOutOfRange ==
    /\ RangeUpdate
    /\ CalledRange.start > Len(CalledLines)
    /\ FailsWith("OUT_OF_RANGE")

\* a create, with content, of a path inside the workspace
Create ==
    /\ LastWrite
    /\ last.args.operation = "create"
    /\ ExecuteResolve(last.args.path).success
    /\ last.args.content # <<>>

\* the directories a path lies in
Ancestors(p) ==
    {q \in DOMAIN last.pre :
        /\ Len(q) < Len(p)
        /\ SubSeq(p, 1, Len(q)) = q
        /\ p[Len(q) + 1] = Sep}

\* the call made the target a file with the given content and its missing
\* ancestors directories, changed nothing else, and returned the checksum
\* of the content
Created ==
    /\ last.res.outcome = "returned" /\ last.res.success
    /\ last.res.applied = "true"
    /\ last.res.newChecksum = generateChecksum(last.args.content)
    /\ fs = [p \in DOMAIN last.pre |->
                IF p = CalledPath THEN FileNode(last.args.content)
                ELSE IF p \in Ancestors(CalledPath) THEN DirNode
                ELSE last.pre[p]]

\* C15 as stated: a create whose target exists fails with ALREADY_EXISTS and
\* changes nothing; a create that is not a dry run, on an absent target,
\* creates the missing parent directories, stores exactly the given content
\* and returns the checksum of that content.
C15_CreateOnAbsent ==
    /\ (Create /\ CalledNode.kind # "none") => FailsWith("ALREADY_EXISTS")
    /\ (Create /\ CalledNode.kind = "none" /\ ~last.args.dryRun) => Created

\* C15 amended: as stated when no ancestor of the absent target is a
\* regular file; when one is, nothing is created and nothing is changed.
C15_CreateBelowDirectories ==
    /\ (Create /\ CalledNode.kind # "none") => FailsWith("ALREADY_EXISTS")
    /\ (Create /\ CalledNode.kind = "none" /\ ~last.args.dryRun)
           => IF \E q \in Ancestors(CalledPath) : last.pre[q].kind = "file"
              THEN fs = last.pre /\ ~last.res.success
              ELSE Created

\* a create made the missing parent directory and the file in it
C15_Witness ==
    /\ Create /\ ~last.args.dryRun
    /\ CalledNode.kind = "none"
    /\ \E q \in Ancestors(CalledPath) : last.pre[q].kind = "none"
    /\ Created

\* C16: every result of fs_write carries the field applied; applied is
\* false for every dry-run call and every failed call (INVALID_PATH,
\* MISSING_CONTENT and INVALID_OPERATION included), and storage is modified
\* only by calls whose result has applied=true.
C16_AppliedEverywhere ==
    (LastWrite /\ last.res.outcome = "returned") =>
        /\ last.res.applied \in {"true", "false"}
        /\ (last.args.dryRun \/ ~last.res.success) => last.res.applied = "false"
        /\ fs # last.pre => last.res.applied = "true"

\* a write on an existing text file that carries a checksum other than the
\* checksum of the file's content
StaleWrite(operation) ==
    /\ LastWrite
    /\ last.args.operation = operation
    /\ CalledNode.kind = "file"
    /\ isTextFile(CalledPath)
    /\ last.args.checksum # <<>>
    /\ last.args.checksum # generateChecksum(CalledNode.content)

\* C19: a checksum supplied to a write on an existing file is compared with
\* the checksum of the file's current content by every operation that takes
\* it: an update (that names an action) and a delete carrying a checksum
\* that does not match are rejected with CHECKSUM_MISMATCH, and the file is
\* neither changed nor removed.
C19_StaleDeleteRefused ==
    /\ (StaleWrite("update") /\ last.args.action # "") => FailsWith("CHECKSUM_MISMATCH")
    /\ StaleWrite("delete") => FailsWith("CHECKSUM_MISMATCH")

(***************************************************************************)
(* Specification SpecScenario: a caller that creates x.md, reads it and    *)
(* updates line 2, passing the checksums it was given; hist is the list of *)
(* the calls it has made, each with the tree it left                       *)
(***************************************************************************)
MaxCalls == 4

ScenarioContent == <<"a", NL, "b", NL, "c", NL>>

\* the checksum a call gave its caller
Token(call) ==
    IF call.tool = "fs_write" THEN call.res.newChecksum ELSE call.res.checksum

Observed == {Token(hist[i].call) : i \in 1..Len(hist)} \ {<<>>}

ScenarioWrites ==
    {WriteArgs(XMd, "create", "", ScenarioContent, <<>>, <<>>, FALSE, <<>>, FALSE)}
    \cup {WriteArgs(XMd, "update", "replace", c, <<"2">>, <<>>, FALSE, t, FALSE) :
            c \in {<<"B">>, <<"b">>}, t \in Observed}

ScenarioReads == {ReadArgs(XMd, <<>>, <<>>, <<>>)}

InitScenario == Init

ScenarioReturn ==
    /\ last.done
    /\ hist' = Append(hist, [call |-> last, post |-> fs])
    /\ last' = Pending
    /\ UNCHANGED <<fs, procs, pureIn, pureOut>>

NextScenario ==
    \/ \E args \in ScenarioWrites : Len(hist) < MaxCalls /\ FsWrite(args)
    \/ \E args \in ScenarioReads : Len(hist) < MaxCalls /\ FsRead(args)
    \/ ScenarioReturn

SpecScenario == InitScenario /\ [][NextScenario]_vars

XMdPath == Root \o <<Sep>> \o XMd

AppliedWrite(call) ==
    /\ call.tool = "fs_write"
    /\ call.res.outcome = "returned" /\ call.res.success
    /\ call.res.applied = "true"

\* the read that follows a create or an update reports the checksum it returned
ReadContinues(call, next) ==
    (AppliedWrite(call) /\ next.tool = "fs_read") =>
        (next.res.success /\ next.res.checksum = call.res.newChecksum)

\* an update asserting the checksum the call before it gave is applied: line 2
\* is replaced and the checksum of the new content is returned
UpdateContinues(call, next, post) ==
    (/\ Token(call) # <<>>
     /\ next.tool = "fs_write" /\ next.args.operation = "update"
     /\ next.args.checksum = Token(call)) =>
        /\ AppliedWrite(next)
        /\ post[XMdPath].content = <<"a", NL>> \o next.args.content \o <<NL, "c", NL>>
        /\ next.res.newChecksum = generateChecksum(post[XMdPath].content)

\* an update that changed the content, repeated with the same checksum, fails
RepeatFails(call, next, post) ==
    (/\ AppliedWrite(call) /\ call.args.operation = "update"
     /\ call.args.checksum # <<>>
     /\ call.pre # next.pre
     /\ next.tool = "fs_write" /\ next.args = call.args) =>
        /\ next.res.outcome = "returned"
        /\ next.res.code = "CHECKSUM_MISMATCH"
        /\ post = next.pre

Continuity(i) ==
    LET call == hist[i].call
        next == hist[i + 1].call
        post == hist[i + 1].post
    IN  /\ ReadContinues(call, next)
        /\ UpdateContinues(call, next, post)
        /\ RepeatFails(call, next, post)

ReadsOfScenarioContent ==
    {i \in 1..Len(hist) :
        /\ hist[i].call.tool = "fs_read"
        /\ hist[i].call.pre[XMdPath] = FileNode(ScenarioContent)}

\* C4 as stated: over create -> read -> update -> update the checksum a
\* create or update returns is the checksum the next read reports, the read
\* of "a\nb\nc\n" showing content lines 1-3; an update asserting that
\* checksum is applied and returns a new checksum; and the same update
\* repeated, when the first changed the content, fails with
\* CHECKSUM_MISMATCH.
C4_ContinuityThreeLines ==
    /\ \A i \in 1..(Len(hist) - 1) : Continuity(i)
    /\ \A i \in ReadsOfScenarioContent :
        /\ hist[i].call.res.totalLines = 3
        /\ hist[i].call.res.text = <<"1", "|", "a", NL, "2", "|", "b", NL, "3", "|", "c">>

\* C4 amended: the same, the read of "a\nb\nc\n" showing four lines, the
\* fourth one empty (the text after the last line feed).
C4_ContinuityFourLines ==
    /\ \A i \in 1..(Len(hist) - 1) : Continuity(i)
    /\ \A i \in ReadsOfScenarioContent :
        /\ hist[i].call.res.totalLines = 4
        /\ hist[i].call.res.text =
               <<"1", "|", "a", NL, "2", "|", "b", NL, "3", "|", "c", NL, "4", "|">>

\* create, read, update with the checksum read, the same update again
C4_Witness ==
    /\ Len(hist) = 4
    /\ hist[1].call.tool = "fs_write" /\ hist[2].call.tool = "fs_read"
    /\ hist[3].call.tool = "fs_write" /\ hist[4].call.tool = "fs_write"
    /\ hist[1].call.args.operation = "create" /\ AppliedWrite(hist[1].call)
    /\ hist[2].call.res.checksum = hist[1].call.res.newChecksum
    /\ hist[3].call.args.checksum = hist[2].call.res.checksum
    /\ hist[3].call.args.content = <<"B">> /\ AppliedWrite(hist[3].call)
    /\ hist[3].post[XMdPath].content = <<"a", NL, "B", NL, "c", NL>>
    /\ hist[4].call.args = hist[3].call.args
    /\ hist[4].call.res.code = "CHECKSUM_MISMATCH"

(***************************************************************************)
(* Specification SpecConc: the fs_write calls of one model response, which *)
(* runAgentLoop starts together (Promise.all).  Each call runs updateFile  *)
(* up to its next await; between two awaits the other calls run.           *)
(***************************************************************************)
MaxProcs == 2

ConcContent == <<"a", NL, "b">>

ConcTree == [EmptyTree EXCEPT ![XMdPath] = FileNode(ConcContent)]

\* the updates call p can make: it replaces line 1 or line 2 of x.md by its
\* own number, asserting the checksum read before the calls were made, or none
ConcRequests(p) ==
    {WriteArgs(XMd, "update", "replace", ToStr(p), l, <<>>, FALSE, k, FALSE) :
        l \in {<<"1">>, <<"2">>}, k \in {<<>>, generateChecksum(ConcContent)}}

IdleProc ==
    [pc |-> "idle", args |-> WriteArgs(<<>>, "", "", <<>>, <<>>, <<>>, FALSE, <<>>, FALSE),
     newContent |-> <<>>, overwritten |-> <<>>, res |-> WriteError("", "")]

InitConc ==
    /\ fs = ConcTree
    /\ procs = [p \in 1..MaxProcs |-> IdleProc]
    /\ last = Pending /\ hist = Idle.hist
    /\ pureIn = Pending /\ pureOut = Pending

Finish(p, res) == [procs EXCEPT ![p].pc = "done", ![p].res = res]

\* execute is called; it resolves the path and enters updateFile
ConcCall(p, args) ==
    /\ procs[p].pc = "idle"
    /\ procs' = [procs EXCEPT ![p].pc = "exists", ![p].args = args]
    /\ UNCHANGED <<fs, last, hist, pureIn, pureOut>>

\* await fileExists, then the checks made before the read
ConcExists(p) ==
    LET absPath == ExecuteResolve(procs[p].args.path).absolutePath
        pre == UpdatePrecheck(absPath, procs[p].args)
    IN  /\ procs[p].pc = "exists"
        /\ procs' = IF ~fileExists(fs, absPath)
                    THEN Finish(p, WriteError("update", "NOT_FOUND"))
                    ELSE IF pre # "" THEN Finish(p, WriteError("update", pre))
                    ELSE [procs EXCEPT ![p].pc = "read"]
        /\ UNCHANGED <<fs, last, hist, pureIn, pureOut>>

\* await fs.readFile, then everything up to the write
ConcRead(p) ==
    LET absPath == ExecuteResolve(procs[p].args.path).absolutePath
        read == FsReadFile(fs, absPath)
        plan == UpdatePlan(procs[p].args, read.content)
    IN  /\ procs[p].pc = "read"
        /\ procs' = IF ~read.ok THEN Finish(p, Rejected("update", read.errno))
                    ELSE IF ~plan.write THEN Finish(p, plan.res)
                    ELSE [procs EXCEPT ![p].pc = "write", ![p].res = plan.res,
                                       ![p].newContent = plan.newContent]
        /\ UNCHANGED <<fs, last, hist, pureIn, pureOut>>

\* await fs.writeFile, then the result is returned; overwritten records the
\* content the write replaced
ConcWrite(p) ==
    LET absPath == ExecuteResolve(procs[p].args.path).absolutePath
        written == FsWriteFile(fs, absPath, procs[p].newContent)
    IN  /\ procs[p].pc = "write"
        /\ fs' = written.fs
        /\ procs' = IF ~written.ok THEN Finish(p, Rejected("update", written.errno))
                    ELSE [procs EXCEPT ![p].pc = "done",
                                       ![p].overwritten = NodeAt(fs, absPath).content]
        /\ UNCHANGED <<last, hist, pureIn, pureOut>>

NextConc ==
    \E p \in 1..MaxProcs :
        \/ \E args \in ConcRequests(p) : ConcCall(p, args)
        \/ ConcExists(p)
        \/ ConcRead(p)
        \/ ConcWrite(p)

SpecConc == InitConc /\ [][NextConc]_vars

\* C1: in every interleaving of concurrent updates of one file, an update
\* asserting checksum C is applied only if the content it replaces still has
\* checksum C (no other writer changed the file after C was observed);
\* otherwise it fails with CHECKSUM_MISMATCH.
C1_NoLostUpdate ==
    \A p \in 1..MaxProcs :
        (procs[p].pc = "done" /\ procs[p].args.checksum # <<>>) =>
            \/ /\ procs[p].res.applied = "true"
               /\ generateChecksum(procs[p].overwritten) = procs[p].args.checksum
            \/ procs[p].res.code = "CHECKSUM_MISMATCH"

(***************************************************************************)
(* Specification SpecDiff: generateDiff on every pair of contents of up to *)
(* MaxLines lines                                                          *)
(***************************************************************************)
MaxLines == 4

DiffLines == {<<"a">>, <<"b">>}

RECURSIVE LineSeqs(_)
LineSeqs(n) ==
    IF n = 1 THEN {<<l>> : l \in DiffLines}
    ELSE LET shorter == LineSeqs(n - 1)
         IN  shorter \cup {Append(s, l) : s \in shorter, l \in DiffLines}

InitDiff ==
    /\ fs = Idle.fs /\ last = Idle.last /\ hist = Idle.hist /\ procs = Idle.procs
    /\ pureIn \in [fn : {"generateDiff"}, old : LineSeqs(MaxLines), new : LineSeqs(MaxLines)]
    /\ pureOut = Pending

CallGenerateDiff ==
    /\ pureIn.fn = "generateDiff"
    /\ pureOut = Pending
    /\ pureOut' = generateDiff(pureIn.old, pureIn.new)
    /\ UNCHANGED <<fs, last, hist, procs, pureIn>>

NextDiff == CallGenerateDiff

SpecDiff == InitDiff /\ [][NextDiff]_vars

\* one hunk applied at its header's position: the lines of old before it are
\* kept, a context line keeps the line of old it shows, a '-' line drops it, a
\* '+' line is added.  cursor counts the lines of old used up.
RECURSIVE ApplyLines(_, _, _, _)
ApplyLines(old, lines, cursor, out) ==
    IF Len(lines) = 0 THEN [ok |-> TRUE, cursor |-> cursor, out |-> out]
    ELSE LET tag == Head(lines)[1]
             text == Tail(Head(lines))
         IN  IF tag = "+" THEN ApplyLines(old, Tail(lines), cursor, Append(out, text))
             ELSE IF cursor >= Len(old) \/ old[cursor + 1] # text
             THEN [ok |-> FALSE, cursor |-> cursor, out |-> out]
             ELSE IF tag = "-" THEN ApplyLines(old, Tail(lines), cursor + 1, out)
             ELSE ApplyLines(old, Tail(lines), cursor + 1, Append(out, text))

RECURSIVE ApplyHunks(_, _, _, _)
ApplyHunks(old, hunks, cursor, out) ==
    IF Len(hunks) = 0
    THEN [ok |-> TRUE, out |-> out \o SubSeq(old, cursor + 1, Len(old))]
    ELSE LET hunk == Head(hunks)
             kept == SubSeq(old, cursor + 1, hunk.oldStart - 1)
             applied == ApplyLines(old, hunk.lines, hunk.oldStart - 1, out \o kept)
         IN  IF hunk.oldStart - 1 < cursor \/ ~applied.ok
             THEN [ok |-> FALSE, out |-> out]
             ELSE ApplyHunks(old, Tail(hunks), applied.cursor, applied.out)

\* C10: applying the hunks of generateDiff(old, new) to old reproduces new,
\* and generateDiff(x, x) is the '(no changes)' sentinel.
C10_DiffRoundTrip ==
    (pureIn.fn = "generateDiff" /\ pureOut.done) =>
        /\ pureIn.old = pureIn.new => pureOut.noChanges
        /\ LET patched == ApplyHunks(pureIn.old, pureOut.hunks, 0, <<>>)
           IN  patched.ok /\ patched.out = pureIn.new

(***************************************************************************)
(* Specification SpecResolve: fs_read of a name that is not in the root,   *)
(* on trees that hold files of that name in subdirectories and, in the     *)
(* root, files whose longer names begin with it                            *)
(***************************************************************************)
MaxDecoys == 10

AMd == <<"a", ".", "m", "d">>

\* a.md0, a.md1, ...: the query a.md is found in each of these names
Decoy(k) == AMd \o ToStr(k)

\* the files named a.md, in any case, that a tree can hold
NamedPlaces == {<<"s", Sep>> \o AMd, <<"t", Sep, "A", ".", "m", "d">>,
                <<"s", Sep, "u", Sep>> \o AMd}

ResolveTree(decoys, named) ==
    LET files == {Root \o <<Sep>> \o Decoy(k) : k \in 0..(decoys - 1)}
                    \cup {Root \o <<Sep>> \o n : n \in named}
        dirs == {Root} \cup {Dirname(p) : p \in files}
                       \cup {Dirname(Dirname(p)) : p \in files}
    IN  [p \in files \cup (dirs \ {<<Sep>>}) |->
            IF p \in files THEN FileNode(ContentB) ELSE DirNode]

ResolveReads ==
    {ReadArgs(p, <<>>, <<>>, <<>>) : p \in {AMd, <<"q", Sep>> \o AMd, <<"b">>}}

InitResolve ==
    /\ fs \in {ResolveTree(decoys, named) :
                 decoys \in 0..MaxDecoys, named \in SUBSET NamedPlaces}
    /\ last = Pending /\ hist = Idle.hist /\ procs = Idle.procs
    /\ pureIn = Pending /\ pureOut = Pending

NextResolve ==
    \/ \E args \in ResolveReads : FsRead(args)
    \/ Return

SpecResolve == InitResolve /\ [][NextResolve]_vars

\* M: the relative paths of the searchable files whose name is the requested
\* file name, compared case-insensitively
SameNameFiles ==
    {e.relativePath :
        e \in {d \in WalkEntries(last.pre, Root, FALSE, SearchMaxDepth) :
                 /\ ~d.isDirectory
                 /\ ToLowerCase(d.fileName) = ToLowerCase(Basename(last.args.path))}}

\* C9: a read of a path that does not exist is NOT_FOUND when no searchable
\* file has the requested name, the content of the one file that has it when
\* there is exactly one, and AMBIGUOUS with every such file as a candidate,
\* never a redirect, when there are two or more, whatever else is in the tree.
C9_AutoResolve ==
    (last.done /\ last.tool = "fs_read" /\ FsStat(last.pre, CalledPath) = "none") =>
        /\ SameNameFiles = {} => last.res.code = "NOT_FOUND"
        /\ Cardinality(SameNameFiles) = 1 =>
               (last.res.success /\ last.res.type = "file"
                  /\ last.res.path \in SameNameFiles)
        /\ Cardinality(SameNameFiles) >= 2 =>
               (last.res.code = "AMBIGUOUS" /\ last.res.candidates = SameNameFiles)

(***************************************************************************)
(* Specification SpecMatch: findUniqueMatch and replaceAllMatches on       *)
(* contents that hold a literal pattern up to MaxOccurrences times         *)
(***************************************************************************)
MaxOccurrences == 11

\* text repeated k times
RECURSIVE Repeat(_, _)
Repeat(text, k) == IF k = 0 THEN <<>> ELSE text \o Repeat(text, k - 1)

\* a prefix, then k times the pattern followed by a separator
MatchContents(pattern) ==
    {prefix \o Repeat(pattern \o sep, k) :
        prefix \in {<<>>, <<"b">>, <<"b", NL>>},
        sep \in {<<>>, <<"b">>, <<NL>>},
        k \in 0..MaxOccurrences}

InitMatch ==
    /\ fs = Idle.fs /\ last = Idle.last /\ hist = Idle.hist /\ procs = Idle.procs
    /\ \E pattern \in {<<"a">>, <<"a", "c">>} :
          pureIn \in [fn : {"findUniqueMatch", "replaceAllMatches"},
                      content : MatchContents(pattern), pattern : {pattern},
                      replacement : {<<>>, <<"z">>}]
    /\ pureOut = Pending

CallFindUniqueMatch ==
    /\ pureIn.fn = "findUniqueMatch"
    /\ pureOut = Pending
    /\ pureOut' = [done |-> TRUE, res |-> findUniqueMatch(pureIn.content, pureIn.pattern)]
    /\ UNCHANGED <<fs, last, hist, procs, pureIn>>

CallReplaceAllMatches ==
    /\ pureIn.fn = "replaceAllMatches"
    /\ pureOut = Pending
    /\ pureOut' = [done |-> TRUE,
                   res |-> replaceAllMatches(pureIn.content, pureIn.pattern,
                                             pureIn.replacement)]
    /\ UNCHANGED <<fs, last, hist, procs, pureIn>>

NextMatch == CallFindUniqueMatch \/ CallReplaceAllMatches

SpecMatch == InitMatch /\ [][NextMatch]_vars

MatchCase(k) ==
    /\ pureOut.done /\ pureIn.fn \in {"findUniqueMatch", "replaceAllMatches"}
    /\ Len(OccurrenceOffsets(pureIn.content, pureIn.pattern)) = k

ReplacedAll ==
    LET offsets == OccurrenceOffsets(pureIn.content, pureIn.pattern)
    IN  /\ pureOut.res.count = Len(offsets)
        /\ pureOut.res.newContent =
               Substituted(pureIn.content, offsets, Len(pureIn.pattern),
                           pureIn.replacement, 0)

\* findUniqueMatch reports the first n of the occurrences
ReportsMultiple(n) ==
    LET offsets == OccurrenceOffsets(pureIn.content, pureIn.pattern)
    IN  /\ pureOut.res.error = "multiple"
        /\ pureOut.res.count = n
        /\ pureOut.res.lines =
               [i \in 1..n |-> LineOfOffset(pureIn.content, offsets[i])]

MaxPathLen == 4
PathAlphabet == {"/", BS, ".", "a", ":", " "}

RECURSIVE StringsUpTo(_, _)
StringsUpTo(alphabet, n) ==
    IF n = 0 THEN {<<>>}
    ELSE LET shorter == StringsUpTo(alphabet, n - 1)
         IN  shorter \cup {Append(s, c) : s \in shorter, c \in alphabet}

InitPath ==
    /\ fs = Idle.fs /\ last = Idle.last /\ hist = Idle.hist /\ procs = Idle.procs
    /\ pureIn \in [fn : {"resolvePath"}, path : StringsUpTo(PathAlphabet, MaxPathLen)]
    /\ pureOut = Pending

CallResolvePath ==
    /\ pureIn.fn = "resolvePath"
    /\ pureOut = Pending
    /\ pureOut' = ExecuteResolve(pureIn.path)
    /\ UNCHANGED <<fs, last, hist, procs, pureIn>>

NextPath == CallResolvePath

SpecPath == InitPath /\ [][NextPath]_vars

\* what the claim calls a '..' segment and absolute-path syntax, read off
\* the raw input
ClaimHasDotDot(s) ==
    \E i \in 1..(Len(s) - 1) :
        /\ s[i] = "." /\ s[i + 1] = "."
        /\ (i = 1 \/ s[i - 1] \in {"/", BS})
        /\ (i + 1 = Len(s) \/ s[i + 2] \in {"/", BS})

ClaimIsAbsolute(s) ==
    \/ (Len(s) >= 1 /\ s[1] = "/")
    \/ (Len(s) >= 3 /\ s[1] \in LowerLetters \cup UpperLetters
                    /\ s[2] = ":" /\ s[3] \in {"/", BS})

\* the path is the root or lies below it: compared segment by segment
InsideRoot(abs) ==
    LET segs == SplitOn(abs, {Sep})
        rootSegs == SplitOn(Root, {Sep})
    IN  /\ Len(abs) > 0 /\ abs[1] = Sep
        /\ StartsWith(segs, rootSegs)
        /\ \A k \in 1..Len(segs) : segs[k] # <<".", ".">>

\* C3: resolvePath fails (INVALID_PATH from execute) for every input with a
\* '..' segment or absolute-path syntax; every path it resolves is the
\* workspace root or starts with root + separator.
C3_Containment ==
    pureIn.fn = "resolvePath" /\ pureOut.done =>
        /\ (ClaimHasDotDot(pureIn.path) \/ ClaimIsAbsolute(pureIn.path)) =>
               (~pureOut.success /\ pureOut.code = "INVALID_PATH")
        /\ pureOut.success =>
               /\ (pureOut.absolutePath = Root
                     \/ StartsWith(pureOut.absolutePath, Root \o <<Sep>>))
               /\ InsideRoot(pureOut.absolutePath)

\* a '..' hidden behind a backslash was rejected
C3_Witness ==
    /\ pureIn.fn = "resolvePath"
    /\ pureIn.path = <<"a", BS, ".", ".">>
    /\ pureOut.done
    /\ ~pureOut.success


\* C17: resolvePath succeeds for each of the three literal inputs '.', ''
\* and '/', returning the workspace root as absolute path and '.' as
\* virtual path.
C17_RootLiterals ==
    (pureIn.fn = "resolvePath" /\ pureOut.done
        /\ pureIn.path \in {<<".">>, <<>>, <<"/">>}) =>
        /\ pureOut.success
        /\ pureOut.absolutePath = Root
        /\ pureOut.virtualPath = <<".">>

(***************************************************************************)
(* Specification SpecLines: replaceLines on every content of up to         *)
(* MaxTextLen characters, every range within it and every replacement,     *)
(* followed by extractLines of the lines the replacement went to           *)
(***************************************************************************)
MaxTextLen == 4
MaxReplacementLen == 2

InitLines ==
    /\ fs = Idle.fs /\ last = Idle.last /\ hist = Idle.hist /\ procs = Idle.procs
    /\ \E content \in StringsUpTo({"a", NL}, MaxTextLen) :
          pureIn \in [fn : {"replaceLines"}, content : {content},
                      start : 1..Len(SplitLines(content)),
                      end : 1..Len(SplitLines(content)),
                      replacement : StringsUpTo({"b", NL}, MaxReplacementLen)]
    /\ pureIn.start <= pureIn.end
    /\ pureOut = Pending

CallReplaceLines ==
    /\ pureIn.fn = "replaceLines"
    /\ pureOut = Pending
    /\ LET res == replaceLines(pureIn.content, pureIn.start, pureIn.end,
                               pureIn.replacement)
           width == Len(SplitLines(pureIn.replacement))
       IN  pureOut' = [done |-> TRUE, res |-> res,
                       back |-> extractLines(res, pureIn.start,
                                             pureIn.start + width - 1)]
    /\ UNCHANGED <<fs, last, hist, procs, pureIn>>

NextLines == CallReplaceLines

SpecLines == InitLines /\ [][NextLines]_vars

\* C13: for every N-line content, every range 1 <= s <= e <= N and every
\* replacement, the lines of replaceLines(content, s, e, replacement) are
\* lines 1..s-1 of the content, then the lines of the replacement, then
\* lines e+1..N of the content; and extracting as many lines as the
\* replacement has, from line s of the result, gives back the replacement.
C13_ReplaceLinesSplice ==
    (pureOut.done /\ pureIn.fn = "replaceLines") =>
        LET original == SplitLines(pureIn.content)
        IN  /\ SplitLines(pureOut.res) =
                   SubSeq(original, 1, pureIn.start - 1)
                       \o SplitLines(pureIn.replacement)
                       \o SubSeq(original, pureIn.end + 1, Len(original))
            /\ pureOut.back.text = pureIn.replacement
            /\ pureOut.back.actualStart = pureIn.start

\* lines 2..3 of a four-line content were replaced by two other lines
C13_Witness ==
    /\ pureOut.done /\ pureIn.fn = "replaceLines"
    /\ pureIn.content = <<"a", NL, NL, NL>>
    /\ pureIn.start = 2 /\ pureIn.end = 3
    /\ pureIn.replacement = <<"b", NL>>
    /\ pureOut.res = <<"a", NL, "b", NL, NL>>


(***************************************************************************)
(* Specification SpecIgnore: isIgnored for every list of up to MaxRules    *)
(* rules of an ignore file and every path of a small set                   *)
(***************************************************************************)
MaxRules == 3

IgnoreRules ==
    {<<"*", ".", "a">>, <<"!", "k", ".", "a">>, <<"k", ".", "a">>,
     <<"!", "*", ".", "a">>, <<"b">>, <<"!", "b">>}

IgnorePaths ==
    {<<"k", ".", "a">>, <<"j", ".", "a">>, <<"b", "/", "k", ".", "a">>,
     <<"!", "k", ".", "a">>, <<"b">>, <<"c">>, <<".", "a">>}

RECURSIVE SeqsUpTo(_, _)
SeqsUpTo(S, n) ==
    IF n = 0 THEN {<<>>}
    ELSE LET shorter == SeqsUpTo(S, n - 1)
         IN  shorter \cup {Append(q, x) : q \in shorter, x \in S}

InitIgnore ==
    /\ fs = Idle.fs /\ last = Idle.last /\ hist = Idle.hist /\ procs = Idle.procs
    /\ pureIn \in [fn : {"isIgnored"}, patterns : SeqsUpTo(IgnoreRules, MaxRules),
                   relativePath : IgnorePaths]
    /\ pureOut = Pending

CallIsIgnored ==
    /\ pureIn.fn = "isIgnored"
    /\ pureOut = Pending
    /\ pureOut' = [done |-> TRUE,
                   res |-> isIgnored(pureIn.patterns, pureIn.relativePath)]
    /\ UNCHANGED <<fs, last, hist, procs, pureIn>>

NextIgnore == CallIsIgnored

SpecIgnore == InitIgnore /\ [][NextIgnore]_vars

\* the glob a rule is written with: the rule without its '!'
RuleGlob(rule) == IF StartsWith(rule, <<"!">>) THEN Tail(rule) ELSE rule

\* the rules, defaults first, whose glob matches the path
MatchingRules(rules, relativePath) ==
    LET all == DEFAULT_IGNORE \o rules
    IN  {i \in 1..Len(all) : RegexTest(globToRegex(RuleGlob(all[i])), relativePath)}

\* C18: isIgnored(path) is decided by the last rule, in rule order (defaults
\* first, then the file's rules), whose glob matches the path: false when
\* that rule is written '!P', true when it is a normal rule, false when no
\* rule matches.
C18_LastRuleWins ==
    (pureIn.fn = "isIgnored" /\ pureOut.done) =>
        LET all == DEFAULT_IGNORE \o pureIn.patterns
            matching == MatchingRules(pureIn.patterns, pureIn.relativePath)
            final == CHOOSE i \in matching : \A j \in matching : j <= i
        IN  pureOut.res = IF matching = {} THEN FALSE
                          ELSE ~StartsWith(all[final], <<"!">>)


(***************************************************************************)
(* Specification SpecPreview: fs_read of a text file of 1 to               *)
(* PREVIEW_LINES + MaxExtraLines lines, with and without a lines argument  *)
(***************************************************************************)
MaxExtraLines == 2

\* n lines with the same text
UniformContent(n, line) == JoinLines([i \in 1..n |-> line])

PreviewTrees ==
    {[p \in {Root, Root \o <<Sep>> \o XMd} |->
         IF p = Root THEN DirNode ELSE FileNode(UniformContent(n, line))] :
        n \in 1..(PREVIEW_LINES + MaxExtraLines), line \in {<<>>, <<"a">>}}

PreviewReads ==
    {ReadArgs(XMd, <<>>, <<>>, l) :
        l \in {<<>>, <<"2">>, <<"9", "9", "-", "1", "0", "1">>, <<"x">>}}

InitPreview ==
    /\ fs \in PreviewTrees
    /\ last = Pending
    /\ hist = Idle.hist /\ procs = Idle.procs
    /\ pureIn = Pending /\ pureOut = Pending

NextPreview ==
    \/ \E args \in PreviewReads : FsRead(args)
    \/ Return

SpecPreview == InitPreview /\ [][NextPreview]_vars

\* a read that returned the content of a file
FileRead ==
    /\ last.done /\ last.tool = "fs_read"
    /\ last.res.outcome = "returned" /\ last.res.success
    /\ last.res.type = "file"

\* the lines shown are the first n lines of the file, each behind its
\* number, the numbers right-aligned to the width of n
ShowsFirst(n) ==
    LET original == SplitLines(CalledNode.content)
        shown == SplitLines(last.res.text)
    IN  /\ Len(shown) = n
        /\ \A i \in 1..n :
               shown[i] = PadStart(ToStr(i), Len(ToStr(n))) \o <<"|">> \o original[i]

\* C20: a file read without a lines argument returns truncated=true with
\* range 1-100 and only the first 100 numbered lines exactly when the file
\* has more than 100 lines (the pieces between its line feeds, as totalLines
\* counts them); otherwise truncated=false and every line is returned; a
\* read with an explicit lines argument always has truncated=false.
C20_PreviewTruncation ==
    FileRead =>
        LET total == Len(SplitLines(CalledNode.content))
        IN  IF last.args.lines # <<>> THEN last.res.truncated = FALSE
            ELSE IF total > PREVIEW_LINES
            THEN /\ last.res.truncated = TRUE
                 /\ last.res.range = <<1, PREVIEW_LINES>>
                 /\ ShowsFirst(PREVIEW_LINES)
            ELSE /\ last.res.truncated = FALSE
                 /\ last.res.range = <<>>
                 /\ ShowsFirst(total)

\* a file of 101 lines was read without a lines argument and cut to 100
C20_Witness ==
    /\ FileRead
    /\ last.args.lines = <<>>
    /\ Len(SplitLines(CalledNode.content)) = PREVIEW_LINES + 1
    /\ last.res.truncated = TRUE
    /\ Len(SplitLines(last.res.text)) = PREVIEW_LINES


(***************************************************************************)
(* Specification SpecWalk: listDirectory, searchInDirectory and            *)
(* searchFiles on the workspace root, over trees with entries on which     *)
(* the file system fails and every order readdir can list the root in      *)
(***************************************************************************)
MaxListDepth == 2
MaxListCap == 2

WalkD == Root \o <<Sep, "d">>
WalkDX == WalkD \o <<Sep>> \o XMd
WalkX == Root \o <<Sep>> \o XMd
WalkH == Root \o <<Sep, ".", "h">>

WalkNode(kind, content) == [kind |-> kind, content |-> content]

WalkTrees ==
    {[p \in {Root, WalkD, WalkDX, WalkX, WalkH} |->
         IF p = Root THEN DirNode
         ELSE IF p = WalkD THEN d
         ELSE IF p = WalkDX THEN dx
         ELSE IF p = WalkX THEN x
         ELSE h] :
        d \in {NoNode, DirNode, FileNode(<<"a">>), WalkNode("locked", <<>>),
               WalkNode("broken", <<>>)},
        dx \in {NoNode, FileNode(<<"a">>), WalkNode("unreadable", <<"a">>),
                WalkNode("broken", <<>>)},
        x \in {NoNode, FileNode(<<"a">>), FileNode(<<"b", NL, "a", "a">>),
               WalkNode("unreadable", <<"a">>), WalkNode("broken", <<>>)},
        h \in {NoNode, FileNode(<<"a">>)}}

\* the orders in which readdir can list the root
WalkOrders ==
    {o \o <<WalkDX>> : o \in {q \in [1..3 -> {WalkD, WalkX, WalkH}] :
                                 \A i, j \in 1..3 : q[i] = q[j] => i = j}}

WalkCall(fn, order, depth, maxFiles, pattern) ==
    [fn |-> fn, order |-> order, depth |-> depth, maxFiles |-> maxFiles,
     pattern |-> pattern]

InitWalk ==
    /\ fs \in {t \in WalkTrees :
                 t[WalkDX].kind # "none" => t[WalkD].kind \in {"dir", "locked"}}
    /\ last = Idle.last /\ hist = Idle.hist /\ procs = Idle.procs
    /\ pureIn \in {WalkCall("listDirectory", o, depth, cap, <<>>) :
                      o \in WalkOrders, depth \in 1..MaxListDepth, cap \in 0..MaxListCap}
                  \cup {WalkCall("searchInDirectory", o, DefaultSearchDepth, 0, <<"a">>) :
                      o \in WalkOrders}
                  \cup {WalkCall("searchFiles", o, 1, 0, <<"d">>) : o \in WalkOrders}
    /\ pureOut = Pending

CallListDirectory ==
    /\ pureIn.fn = "listDirectory"
    /\ pureOut = Pending
    /\ pureOut' = [done |-> TRUE,
                   res |-> listDirectory(fs, pureIn.order, Root, <<".">>, pureIn.depth,
                                         pureIn.maxFiles)]
    /\ UNCHANGED <<fs, last, hist, procs, pureIn>>

CallSearchInDirectory ==
    /\ pureIn.fn = "searchInDirectory"
    /\ pureOut = Pending
    /\ pureOut' = [done |-> TRUE,
                   res |-> searchInDirectory(fs, pureIn.order, Root, <<".">>,
                                             pureIn.pattern, pureIn.depth)]
    /\ UNCHANGED <<fs, last, hist, procs, pureIn>>

CallSearchFiles ==
    /\ pureIn.fn = "searchFiles"
    /\ pureOut = Pending
    /\ \E results \in searchFiles(fs, Root, pureIn.pattern, 50, TRUE, pureIn.depth) :
          pureOut' = [done |-> TRUE, res |-> results]
    /\ UNCHANGED <<fs, last, hist, procs, pureIn>>

NextWalk == CallListDirectory \/ CallSearchInDirectory \/ CallSearchFiles

SpecWalk == InitWalk /\ [][NextWalk]_vars

\* the path below the root, relative to it
RelOf(p) == DropFirst(p, Len(Root) + 1)

\* the entries a walk of the root down to the given depth is to report:
\* stat resolves for them, they are not ignored, and every directory above
\* them is not ignored and can be listed
Eligible(depth) ==
    {p \in DOMAIN fs \ {Root} :
        /\ fs[p].kind \in {"file", "unreadable", "dir", "locked"}
        /\ Len(SplitOn(RelOf(p), {Sep})) <= depth
        /\ ~DefaultIgnored(RelOf(p))
        /\ \A q \in DOMAIN fs \ {Root} :
               (Len(q) < Len(p) /\ SubSeq(p, 1, Len(q)) = q /\ p[Len(q) + 1] = Sep)
                   => fs[q].kind = "dir"}

Listed == {pureOut.res.entries[i].path : i \in 1..Len(pureOut.res.entries)}

ListCap == IF pureIn.maxFiles = 0 THEN DefaultMaxFiles ELSE pureIn.maxFiles

\* C21: a directory listing never returns more than the cap of entries;
\* truncated is true whenever an eligible entry (within depth, not ignored)
\* is left unlisted, and false whenever every eligible entry was listed.
C21_TruncatedExactly ==
    (pureIn.fn = "listDirectory" /\ pureOut.done) =>
        LET eligible == {RelOf(p) : p \in Eligible(pureIn.depth)}
        IN  /\ Len(pureOut.res.entries) <= ListCap
            /\ Listed \subseteq eligible
            /\ pureOut.res.truncated = (Listed # eligible)

\* C21 amended: a directory listing never returns more than the cap of
\* entries; truncated is true whenever an eligible entry is left unlisted,
\* and false whenever fewer entries than the cap were listed. (A complete
\* listing of exactly as many entries as the cap can have truncated=true.)
C21_TruncatedAtCap ==
    (pureIn.fn = "listDirectory" /\ pureOut.done) =>
        LET eligible == {RelOf(p) : p \in Eligible(pureIn.depth)}
        IN  /\ Len(pureOut.res.entries) <= ListCap
            /\ Listed \subseteq eligible
            /\ (Listed # eligible) => pureOut.res.truncated
            /\ pureOut.res.truncated => Len(pureOut.res.entries) = ListCap

\* the walk stopped at a cap of one entry and left another one unlisted
C21_Witness ==
    /\ pureIn.fn = "listDirectory" /\ pureOut.done
    /\ pureIn.maxFiles = 1
    /\ Len(pureOut.res.entries) = 1
    /\ Cardinality(Eligible(pureIn.depth)) >= 2
    /\ pureOut.res.truncated

\* the eligible text files a content search can read
Searchable == {p \in Eligible(DefaultSearchDepth) : fs[p].kind = "file" /\ isTextFile(p)}

OffsetsIn(p) == OccurrenceOffsets(fs[p].content, pureIn.pattern)

\* the file and line of every occurrence of the pattern in a searchable file
ExpectedMatches ==
    UNION {{[file |-> RelOf(p), line |-> LineOfOffset(fs[p].content, OffsetsIn(p)[i])] :
               i \in 1..Len(OffsetsIn(p))} : p \in Searchable}

ExpectedMatchCount ==
    LET n(p) == IF p \in Searchable THEN Len(OffsetsIn(p)) ELSE 0
    IN  n(WalkD) + n(WalkDX) + n(WalkX) + n(WalkH)

\* C25: during directory listing, content search and file-name search, a
\* failure of readdir, stat or readFile on one entry skips only that entry:
\* the walk still returns a success result that includes every other
\* eligible entry (listing, name search) and every match in every other
\* eligible file (content search), each once.
C25_FailuresSkipOneEntry ==
    pureOut.done =>
        /\ (pureIn.fn = "listDirectory" /\ pureIn.maxFiles = 0) =>
               /\ Listed = {RelOf(p) : p \in Eligible(pureIn.depth)}
               /\ Len(pureOut.res.entries) = Cardinality(Listed)
               /\ ~pureOut.res.truncated
        /\ pureIn.fn = "searchInDirectory" =>
               /\ pureOut.res.success
               /\ {[file |-> pureOut.res.matches[i].file,
                    line |-> pureOut.res.matches[i].line] :
                       i \in 1..Len(pureOut.res.matches)} = ExpectedMatches
               /\ pureOut.res.matchCount = ExpectedMatchCount
        /\ pureIn.fn = "searchFiles" =>
               {entry.relativePath : entry \in pureOut.res}
                   = {RelOf(p) : p \in Eligible(pureIn.depth + 1)}

\* stat failed on an entry the root lists first, and the file listed after
\* it was still reported by the listing
C25_Witness ==
    /\ pureOut.done /\ pureIn.fn = "listDirectory" /\ pureIn.maxFiles = 0
    /\ fs[WalkD].kind = "broken"
    /\ fs[WalkX].kind = "file"
    /\ pureIn.order[1] = WalkD
    /\ XMd \in Listed


(***************************************************************************)
(* Specification SpecExec: the exec loops of findMatches and               *)
(* findPresetMatches, one iteration per step, on expressions that can      *)
(* match the empty string and on a preset without the g flag               *)
(***************************************************************************)
MaxExecLen == 3
MaxExecMatches == 3

\* three backticks, each written "#"
BackTicks == <<"#", "#", "#">>
Dashes == <<"-", "-", "-">>

\* the compiled expressions: a literal text, '^', 'c*', and the presets,
\* which are an opening text, as few characters as possible, and a closing
\* text, the opening at the start of a line when anchored
RegexLiteral(text) ==
    [kind |-> "literal", text |-> text, close |-> <<>>, anchored |-> FALSE,
     global |-> TRUE]
RegexStart ==
    [kind |-> "start", text |-> <<>>, close |-> <<>>, anchored |-> TRUE, global |-> TRUE]
RegexStar(c) ==
    [kind |-> "star", text |-> <<c>>, close |-> <<>>, anchored |-> FALSE, global |-> TRUE]

\* buildPattern(pattern, mode), for literal patterns and the regex patterns
\* '^' and 'a*'
buildPattern(pattern, mode) ==
    IF mode = "literal" THEN RegexLiteral(pattern)
    ELSE IF pattern = <<"^">> THEN RegexStart
    ELSE RegexStar(pattern[1])

\* buildPresetPattern(preset), for codeblocks (flags 'g') and frontmatter
\* (flags 'm')
buildPresetPattern(preset) ==
    IF preset = "codeblocks"
    THEN [kind |-> "delimited", text |-> BackTicks, close |-> BackTicks,
          anchored |-> FALSE, global |-> TRUE]
    ELSE [kind |-> "delimited", text |-> Dashes \o <<NL>>, close |-> <<NL>> \o Dashes,
          anchored |-> TRUE, global |-> FALSE]

\* the length of the match of the expression at offset i, -1 when it does
\* not match there
MatchLenAt(regex, content, i) ==
    LET run == {n \in 0..(Len(content) - i) :
                   \A j \in 1..n : content[i + j] = regex.text[1]}
        closes == {j \in (i + Len(regex.text))..Len(content) :
                      MatchesAt(content, regex.close, j)}
    IN  CASE regex.kind = "literal" ->
                 IF MatchesAt(content, regex.text, i) THEN Len(regex.text) ELSE -1
          [] regex.kind = "start" -> IF i = 0 THEN 0 ELSE -1
          [] regex.kind = "star" -> CHOOSE n \in run : \A m \in run : m <= n
          [] regex.kind = "delimited" ->
                 IF /\ MatchesAt(content, regex.text, i)
                    /\ regex.anchored => (i = 0 \/ content[i] = NL)
                    /\ closes # {}
                 THEN (CHOOSE j \in closes : \A m \in closes : j <= m)
                          + Len(regex.close) - i
                 ELSE -1

\* RegExp.prototype.exec: the search starts at lastIndex when the
\* expression has the g flag and at 0 when it has not; only an expression
\* with the g flag has its lastIndex written
RegExpExec(regex, content, lastIndex) ==
    LET from == IF regex.global THEN lastIndex ELSE 0
        found == {i \in from..Len(content) : MatchLenAt(regex, content, i) >= 0}
        index == CHOOSE i \in found : \A j \in found : i <= j
    IN  IF found = {}
        THEN [matched |-> FALSE, index |-> 0,
              lastIndex |-> IF regex.global THEN 0 ELSE lastIndex]
        ELSE [matched |-> TRUE, index |-> index,
              lastIndex |-> IF regex.global
                            THEN index + MatchLenAt(regex, content, index)
                            ELSE lastIndex]

ExecCalls ==
    {[fn |-> "findMatches", content |-> c, regex |-> buildPattern(p.pattern, p.mode),
      maxMatches |-> m] :
        c \in StringsUpTo({"a", "b"}, MaxExecLen),
        p \in {[pattern |-> <<>>, mode |-> "literal"],
               [pattern |-> <<"a">>, mode |-> "literal"],
               [pattern |-> <<"^">>, mode |-> "regex"],
               [pattern |-> <<"a", "*">>, mode |-> "regex"]},
        m \in 1..MaxExecMatches}
    \cup
    {[fn |-> "findPresetMatches", content |-> pre \o c \o post,
      regex |-> buildPresetPattern(preset), maxMatches |-> m] :
        pre \in {<<>>, <<"a">>, <<"a", NL>>},
        post \in {<<>>, <<NL>>},
        c \in {r.text \o mid \o r.close \o more :
                  r \in {buildPresetPattern("codeblocks"),
                         buildPresetPattern("frontmatter")},
                  mid \in {<<>>, <<"a">>},
                  more \in {<<>>, BackTicks \o BackTicks,
                            <<NL>> \o Dashes \o <<NL, NL>> \o Dashes}},
        preset \in {"codeblocks", "frontmatter"},
        m \in 1..MaxExecMatches}

InitExec ==
    /\ fs = Idle.fs /\ last = Idle.last /\ hist = Idle.hist /\ procs = Idle.procs
    /\ pureIn \in ExecCalls
    /\ pureOut = [done |-> FALSE, at |-> "start", lastIndex |-> 0, matched |-> FALSE,
                  index |-> 0, matches |-> <<>>]

\* let match = regex.exec(content)
ExecFirst ==
    /\ pureOut.at = "start"
    /\ LET m == RegExpExec(pureIn.regex, pureIn.content, 0)
       IN  pureOut' = [pureOut EXCEPT !.at = "loop", !.lastIndex = m.lastIndex,
                                      !.matched = m.matched, !.index = m.index]
    /\ UNCHANGED <<fs, last, hist, procs, pureIn>>

\* one iteration of the body of the mutated loop, entered also with
\* maxMatches matches
ExecIterationPastCap ==
    /\ pureOut.at = "loop"
    /\ pureOut.matched /\ Len(pureOut.matches) <= pureIn.maxMatches
    /\ LET bumped == IF pureOut.index = pureOut.lastIndex
                     THEN pureOut.lastIndex + 1 ELSE pureOut.lastIndex
           m == RegExpExec(pureIn.regex, pureIn.content, bumped)
       IN  pureOut' = [pureOut EXCEPT !.matches = Append(@, pureOut.index),
                                      !.lastIndex = m.lastIndex,
                                      !.matched = m.matched, !.index = m.index]
    /\ UNCHANGED <<fs, last, hist, procs, pureIn>>

\* one iteration of while (match !== null && matches.length < maxMatches)
ExecIteration ==
    /\ pureOut.at = "loop"
    /\ pureOut.matched /\ Len(pureOut.matches) < pureIn.maxMatches
    /\ LET bumped == IF pureOut.index = pureOut.lastIndex
                     THEN pureOut.lastIndex + 1 ELSE pureOut.lastIndex
           m == RegExpExec(pureIn.regex, pureIn.content, bumped)
       IN  pureOut' = [pureOut EXCEPT !.matches = Append(@, pureOut.index),
                                      !.lastIndex = m.lastIndex,
                                      !.matched = m.matched, !.index = m.index]
    /\ UNCHANGED <<fs, last, hist, procs, pureIn>>

\* the loop is left and the matches are returned
ExecReturn ==
    /\ pureOut.at = "loop"
    /\ ~ENABLED ExecIteration
    /\ pureOut' = [pureOut EXCEPT !.at = "returned", !.done = TRUE]
    /\ UNCHANGED <<fs, last, hist, procs, pureIn>>

NextExec == ExecFirst \/ ExecIteration \/ ExecReturn

SpecExec == InitExec /\ [][NextExec]_vars

\* the call runs on: no step of it waits for anything
SpecExecFair == SpecExec /\ WF_vars(NextExec)

\* C22: findMatches and findPresetMatches terminate on every content and
\* every pattern, also on patterns that match the empty string (the empty
\* pattern, '^', 'a*'), and return at most maxMatches matches.
C22_ExecLoopTerminates ==
    <>[](pureOut.done /\ Len(pureOut.matches) <= pureIn.maxMatches)

\* the empty pattern was matched at every offset of a two-character content
C22_Witness ==
    /\ pureOut.done
    /\ pureIn.fn = "findMatches"
    /\ pureIn.regex = RegexLiteral(<<>>)
    /\ Len(pureIn.content) = 2
    /\ pureOut.matches = <<0, 1, 2>>

\* C34: for every preset and every content, the offsets of the matches
\* findPresetMatches returns are strictly increasing: each occurrence is
\* returned once and no match is reported twice.
C34_PresetMatchesOnce ==
    (pureOut.done /\ pureIn.fn = "findPresetMatches") =>
        \A i, j \in 1..Len(pureOut.matches) :
            i < j => pureOut.matches[i] < pureOut.matches[j]

(***************************************************************************)
(* checksum.js: the digest itself                                          *)
(*                                                                         *)
(* createHash('sha256').update(content, 'utf8').digest('hex').slice(0, 12) *)
(* computed as SHA-256 computes it (FIPS 180-4), for contents of ASCII     *)
(* characters that fit one 64-byte block.  A 32-bit word is the pair of    *)
(* its 16-bit halves <<high, low>>.                                        *)
(***************************************************************************)
HalfWord == 2^16

\* bit by bit over the low n bits: the exclusive or of three half words,
\* (x AND y) XOR (NOT x AND z), and
\* (x AND y) XOR (x AND z) XOR (y AND z)
RECURSIVE Xor3Half(_, _, _, _)
Xor3Half(x, y, z, n) ==
    IF n = 0 THEN 0
    ELSE (((x % 2) + (y % 2) + (z % 2)) % 2)
         + 2 * Xor3Half(x \div 2, y \div 2, z \div 2, n - 1)
RECURSIVE ChooseHalf(_, _, _, _)
ChooseHalf(x, y, z, n) ==
    IF n = 0 THEN 0
    ELSE (IF x % 2 = 1 THEN y % 2 ELSE z % 2)
         + 2 * ChooseHalf(x \div 2, y \div 2, z \div 2, n - 1)
RECURSIVE MajorityHalf(_, _, _, _)
MajorityHalf(x, y, z, n) ==
    IF n = 0 THEN 0
    ELSE (((x % 2) + (y % 2) + (z % 2)) \div 2)
         + 2 * MajorityHalf(x \div 2, y \div 2, z \div 2, n - 1)

WordXor3(x, y, z) == <<Xor3Half(x[1], y[1], z[1], 16), Xor3Half(x[2], y[2], z[2], 16)>>
\* addition modulo 2^32
WordAdd(x, y) ==
    LET low == x[2] + y[2]
        high == x[1] + y[1] + (low \div HalfWord)
    IN <<high % HalfWord, low % HalfWord>>
\* rotation and shift to the right by n bits
RotateRight(x, n) ==
    LET w == IF n >= 16 THEN <<x[2], x[1]>> ELSE x
        k == n % 16
    IN <<(w[1] \div 2^k) + (w[2] % 2^k) * 2^(16 - k),
         (w[2] \div 2^k) + (w[1] % 2^k) * 2^(16 - k)>>
ShiftRight(x, n) ==
    <<x[1] \div 2^n, (x[2] \div 2^n) + (x[1] % 2^n) * 2^(16 - n)>>

Sha256K ==
    <<
       <<17034, 12184>>, <<28983, 17553>>, <<46528, 64463>>, <<59829, 56229>>,
       <<14678, 49755>>, <<23025, 4593>>, <<37439, 33444>>, <<43804, 24277>>,
       <<55303, 43672>>, <<4739, 23297>>, <<9265, 34238>>, <<21772, 32195>>,
       <<29374, 23924>>, <<32990, 45566>>, <<39900, 1703>>, <<49563, 61812>>,
       <<58523, 27073>>, <<61374, 18310>>, <<4033, 40390>>, <<9228, 41420>>,
       <<11753, 11375>>, <<19060, 33962>>, <<23728, 43484>>, <<30457, 35034>>,
       <<38974, 20818>>, <<43057, 50797>>, <<45059, 10184>>, <<48985, 32711>>,
       <<50912, 3059>>, <<54695, 37191>>, <<1738, 25425>>, <<5161, 10599>>,
       <<10167, 2693>>, <<11803, 8504>>, <<19756, 28156>>, <<21304, 3347>>,
       <<25866, 29524>>, <<30314, 2747>>, <<33218, 51502>>, <<37490, 11397>>,
       <<41663, 59553>>, <<43034, 26187>>, <<49739, 35696>>, <<51052, 20899>>,
       <<53650, 59417>>, <<54937, 1572>>, <<62478, 13701>>, <<4202, 41072>>,
       <<6564, 49430>>, <<7735, 27656>>, <<10056, 30540>>, <<13488, 48309>>,
       <<14620, 3251>>, <<20184, 43594>>, <<23452, 51791>>, <<26670, 28659>>,
       <<29839, 33518>>, <<30885, 25455>>, <<33992, 30740>>, <<36039, 520>>,
       <<37054, 65530>>, <<42064, 27883>>, <<48889, 41975>>, <<50801, 30962>>
    >>
Sha256H0 ==
    <<
       <<27145, 58983>>, <<47975, 44677>>, <<15470, 62322>>, <<42319, 62778>>,
       <<20750, 21119>>, <<39685, 26764>>, <<8067, 55723>>, <<23520, 52505>>
    >>

BigSigma0(x) == WordXor3(RotateRight(x, 2), RotateRight(x, 13), RotateRight(x, 22))
BigSigma1(x) == WordXor3(RotateRight(x, 6), RotateRight(x, 11), RotateRight(x, 25))
SmallSigma0(x) == WordXor3(RotateRight(x, 7), RotateRight(x, 18), ShiftRight(x, 3))
SmallSigma1(x) == WordXor3(RotateRight(x, 17), RotateRight(x, 19), ShiftRight(x, 10))
Choose(x, y, z) == <<ChooseHalf(x[1], y[1], z[1], 16), ChooseHalf(x[2], y[2], z[2], 16)>>
Majority(x, y, z) ==
    <<MajorityHalf(x[1], y[1], z[1], 16), MajorityHalf(x[2], y[2], z[2], 16)>>

\* update(content, 'utf8'): the bytes of the content
CharCode(c) ==
    CASE c = "a" -> 97 [] c = "b" -> 98 [] c = "c" -> 99 [] c = "\n" -> 10
      [] c = " " -> 32 [] c = "x" -> 120
Utf8Bytes(content) == [i \in 1..Len(content) |-> CharCode(content[i])]

\* the padded block: the bytes, 0x80, zeros, and the bit length in the
\* last eight bytes; as sixteen words
PaddedBlock(bytes) ==
    LET byteAt(i) == IF i <= Len(bytes) THEN bytes[i]
                     ELSE IF i = Len(bytes) + 1 THEN 128
                     ELSE IF i = 63 THEN (8 * Len(bytes)) \div 256
                     ELSE IF i = 64 THEN (8 * Len(bytes)) % 256
                     ELSE 0
        word(t) == <<256 * byteAt(4 * t - 3) + byteAt(4 * t - 2),
                     256 * byteAt(4 * t - 1) + byteAt(4 * t)>>
    IN <<word(1), word(2), word(3), word(4), word(5), word(6), word(7), word(8),
         word(9), word(10), word(11), word(12), word(13), word(14), word(15),
         word(16)>>

\* the message schedule W[0..63] (index t + 1 holds W[t]), extended to n
\* words
RECURSIVE ExtendSchedule(_, _)
ExtendSchedule(w, n) ==
    IF Len(w) >= n THEN w
    ELSE LET t == Len(w) + 1
         IN ExtendSchedule(Append(w,
                WordAdd(WordAdd(SmallSigma1(w[t - 2]), w[t - 7]),
                        WordAdd(SmallSigma0(w[t - 15]), w[t - 16]))), n)
MessageSchedule(block) ==
    ExtendSchedule(ExtendSchedule(ExtendSchedule(block, 32), 48), 64)

\* rounds t..until of the compression function on the working variables
RECURSIVE Rounds(_, _, _, _)
Rounds(v, w, t, until) ==
    IF t > until THEN v
    ELSE LET t1 == WordAdd(WordAdd(WordAdd(v[8], BigSigma1(v[5])),
                                   WordAdd(Choose(v[5], v[6], v[7]), Sha256K[t])),
                           w[t])
             t2 == WordAdd(BigSigma0(v[1]), Majority(v[1], v[2], v[3]))
             round == <<WordAdd(t1, t2), v[1], v[2], v[3],
                        WordAdd(v[4], t1), v[5], v[6], v[7]>>
         \* (the test has the round computed before the next one starts)
         IN IF Len(round) = 8 THEN Rounds(round, w, t + 1, until) ELSE round
Compress(v, w) ==
    Rounds(Rounds(Rounds(Rounds(v, w, 1, 16), w, 17, 32), w, 33, 48), w, 49, 64)

Sha256(bytes) ==
    LET v == Compress(Sha256H0, MessageSchedule(PaddedBlock(bytes)))
    IN <<WordAdd(Sha256H0[1], v[1]), WordAdd(Sha256H0[2], v[2]),
         WordAdd(Sha256H0[3], v[3]), WordAdd(Sha256H0[4], v[4]),
         WordAdd(Sha256H0[5], v[5]), WordAdd(Sha256H0[6], v[6]),
         WordAdd(Sha256H0[7], v[7]), WordAdd(Sha256H0[8], v[8])>>

HexDigits == <<"0", "1", "2", "3", "4", "5", "6", "7",
               "8", "9", "a", "b", "c", "d", "e", "f">>
\* the four hex characters of a 16-bit half
HexOfHalf(h) == <<HexDigits[(h \div 4096) + 1], HexDigits[((h \div 256) % 16) + 1],
                  HexDigits[((h \div 16) % 16) + 1], HexDigits[(h % 16) + 1]>>
\* digest('hex')
DigestHex(words) ==
    LET hex(i) == HexOfHalf(words[i][1]) \o HexOfHalf(words[i][2])
    IN hex(1) \o hex(2) \o hex(3) \o hex(4) \o hex(5) \o hex(6) \o hex(7) \o hex(8)

\* a token of the first 8 hex characters
generateChecksumHexShort(content) ==
    SubSeq(DigestHex(Sha256(Utf8Bytes(content))), 1, 8)

\* generateChecksum, by its digest
generateChecksumHex(content) ==
    SubSeq(DigestHex(Sha256(Utf8Bytes(content))), 1, 12)

\* verifyChecksum, by its digest
verifyChecksumHex(content, expected) == generateChecksumHex(content) = expected

(***************************************************************************)
(* Specification SpecChecksum: a file whose content is rewritten, whose    *)
(* token is generated and whose content is verified against the token      *)
(* generated last                                                          *)
(***************************************************************************)
MaxChecksumLen == 2

ChecksumContents == StringsUpTo({"a", NL}, MaxChecksumLen)

InitChecksum ==
    /\ fs = Idle.fs /\ last = Idle.last /\ hist = Idle.hist /\ procs = Idle.procs
    /\ pureIn \in [content : ChecksumContents]
    /\ pureOut = [generated |-> FALSE, token |-> <<>>, of |-> <<>>,
                  verified |-> FALSE, result |-> FALSE, against |-> <<>>]

\* the content of the file is rewritten
ChangeContent ==
    /\ \E c \in ChecksumContents \ {pureIn.content} : pureIn' = [content |-> c]
    /\ pureOut' = [pureOut EXCEPT !.verified = FALSE, !.result = FALSE,
                                  !.against = <<>>]
    /\ UNCHANGED <<fs, last, hist, procs>>

\* generateChecksum(content) on the content of the file
CallGenerateChecksum ==
    /\ pureOut' = [generated |-> TRUE,
                   token |-> generateChecksumHex(pureIn.content),
                   of |-> pureIn.content,
                   verified |-> FALSE, result |-> FALSE, against |-> <<>>]
    /\ UNCHANGED <<fs, last, hist, procs, pureIn>>

\* verifyChecksum(content, expected) on the content of the file and the
\* token generated last
CallVerifyChecksum ==
    /\ pureOut.generated
    /\ pureOut' = [pureOut EXCEPT !.verified = TRUE,
                                  !.result = verifyChecksumHex(pureIn.content,
                                                               pureOut.token),
                                  !.against = pureIn.content]
    /\ UNCHANGED <<fs, last, hist, procs, pureIn>>

NextChecksum == ChangeContent \/ CallGenerateChecksum \/ CallVerifyChecksum

SpecChecksum == InitChecksum /\ [][NextChecksum]_vars

HexCharacters == {HexDigits[i] : i \in 1..16}

MaxInsertTextLen == 4
MaxInsertionLen == 2

InitInsert ==
    /\ fs = Idle.fs /\ last = Idle.last /\ hist = Idle.hist /\ procs = Idle.procs
    /\ \E content \in StringsUpTo({"a", NL}, MaxInsertTextLen) :
          pureIn \in [fn : {"insertBeforeLine", "insertAfterLine"},
                      content : {content},
                      line : 1..Len(SplitLines(content)),
                      insertion : StringsUpTo({"b", NL}, MaxInsertionLen)]
    /\ pureOut = Pending

CallInsertBeforeLine ==
    /\ pureIn.fn = "insertBeforeLine"
    /\ pureOut = Pending
    /\ pureOut' = [done |-> TRUE,
                   res |-> insertBeforeLine(pureIn.content, pureIn.line,
                                            pureIn.insertion)]
    /\ UNCHANGED <<fs, last, hist, procs, pureIn>>

CallInsertAfterLine ==
    /\ pureIn.fn = "insertAfterLine"
    /\ pureOut = Pending
    /\ pureOut' = [done |-> TRUE,
                   res |-> insertAfterLine(pureIn.content, pureIn.line,
                                           pureIn.insertion)]
    /\ UNCHANGED <<fs, last, hist, procs, pureIn>>

NextInsert == CallInsertBeforeLine \/ CallInsertAfterLine

SpecInsert == InitInsert /\ [][NextInsert]_vars

\* C24: for every N-line content, every line 1 <= L <= N and every
\* insertion, the lines of insertBeforeLine(content, L, insertion) are lines
\* 1..L-1 of the content, the lines of the insertion, then lines L..N; the
\* lines of insertAfterLine(content, L, insertion) are lines 1..L, the lines
\* of the insertion, then lines L+1..N; and inserting after line N gives the
\* content, a line feed and the insertion.
C24_InsertAtLine ==
    pureOut.done =>
        LET original == SplitLines(pureIn.content)
            inserted == SplitLines(pureIn.insertion)
            N == Len(original)
            L == pureIn.line
        IN  /\ pureIn.fn = "insertBeforeLine" =>
                   SplitLines(pureOut.res) =
                       SubSeq(original, 1, L - 1) \o inserted \o SubSeq(original, L, N)
            /\ pureIn.fn = "insertAfterLine" =>
                   SplitLines(pureOut.res) =
                       SubSeq(original, 1, L) \o inserted \o SubSeq(original, L + 1, N)
            /\ (pureIn.fn = "insertAfterLine" /\ L = N) =>
                   pureOut.res = pureIn.content \o <<NL>> \o pureIn.insertion

\* a line was inserted after the last line of a three-line content
C24_Witness ==
    /\ pureOut.done /\ pureIn.fn = "insertAfterLine"
    /\ pureIn.content = <<"a", NL, NL, "a">>
    /\ pureIn.line = 3
    /\ pureIn.insertion = <<"b">>
    /\ pureOut.res = <<"a", NL, NL, "a", NL, "b">>

(***************************************************************************)
(* Specification SpecDaytona: one run of the Daytona agent (02_daytona     *)
(* app.js, sandbox.js, helpers.js onShutdown).  pureOut holds the process: *)
(*   pc       where main() stands                                          *)
(*   sandbox  whether daytona.create() has resolved                        *)
(*   handlers whether onShutdown has registered the signal handlers        *)
(*   syncing, deleting  the shutdown handlers awaiting syncFromSandbox     *)
(*            and sandbox.delete()                                         *)
(*   calls    the calls of syncFromSandbox and sandbox.delete(), in order  *)
(*   exit     "running", or how the process ended                          *)
(***************************************************************************)
MaxSignals == 2
MaxTurns == 2

InitDaytona ==
    /\ fs = Idle.fs /\ last = Idle.last /\ hist = Idle.hist /\ procs = Idle.procs
    /\ pureIn = [fn |-> "main"]
    /\ pureOut = [pc |-> "create", sandbox |-> FALSE, handlers |-> FALSE,
                  syncing |-> 0, deleting |-> 0, calls |-> <<>>,
                  signals |-> 0, turns |-> 0, exit |-> "running"]

Running == pureOut.exit = "running"

\* the shutdown handler is entered: cleanup() calls destroySandbox, which
\* (the sandbox being set) calls syncFromSandbox
EnterHandler(p) ==
    [p EXCEPT !.syncing = @ + 1, !.calls = Append(@, "syncFromSandbox")]

\* initSandbox: daytona.create() resolves
CreateSandbox ==
    /\ Running /\ pureOut.pc = "create"
    /\ pureOut' = [pureOut EXCEPT !.sandbox = TRUE, !.pc = "upload"]
    /\ UNCHANGED <<fs, last, hist, procs, pureIn>>

\* initSandbox: mkdir or daytona.create() rejects; main() rejects with it
CreateFails ==
    /\ Running /\ pureOut.pc = "create"
    /\ pureOut' = [pureOut EXCEPT !.exit = "rejected"]
    /\ UNCHANGED <<fs, last, hist, procs, pureIn>>

\* initSandbox: ensureFolder and syncToSandbox are done; main() prints the
\* banner, creates the readline interface, registers the handlers with
\* onShutdown and asks the first question
UploadDone ==
    /\ Running /\ pureOut.pc = "upload"
    /\ pureOut' = [pureOut EXCEPT !.handlers = TRUE, !.pc = "question"]
    /\ UNCHANGED <<fs, last, hist, procs, pureIn>>

\* initSandbox: syncToSandbox rejects (readFile or uploadFile); main()
\* rejects with it
UploadFails ==
    /\ Running /\ pureOut.pc = "upload"
    /\ pureOut' = [pureOut EXCEPT !.exit = "rejected"]
    /\ UNCHANGED <<fs, last, hist, procs, pureIn>>

\* SIGINT or SIGTERM arrives: the handler of onShutdown runs when it is
\* registered, otherwise the signal ends the process
Signal ==
    /\ Running /\ pureOut.signals < MaxSignals
    /\ \E sig \in {"SIGINT", "SIGTERM"} :
          pureOut' = IF pureOut.handlers
                     THEN EnterHandler([pureOut EXCEPT !.signals = @ + 1])
                     ELSE [pureOut EXCEPT !.signals = @ + 1, !.exit = sig]
    /\ UNCHANGED <<fs, last, hist, procs, pureIn>>

\* rl.question settles: with 'exit' (typed, or the input stream closed and
\* the rejection caught) main() leaves the loop and calls shutdown();
\* with any other line it starts a turn
Question ==
    /\ Running /\ pureOut.pc = "question"
    /\ \E input \in {"exit", "closed", "text"} :
          IF input = "text"
          THEN /\ pureOut.turns < MaxTurns
               /\ pureOut' = [pureOut EXCEPT !.pc = "turn", !.turns = @ + 1]
          ELSE pureOut' = EnterHandler([pureOut EXCEPT !.pc = "shutdown"])
    /\ UNCHANGED <<fs, last, hist, procs, pureIn>>

\* runAgentLoop resolves, or rejects and the error is caught and printed
Turn ==
    /\ Running /\ pureOut.pc = "turn"
    /\ \E outcome \in {"resolved", "rejected"} :
          pureOut' = [pureOut EXCEPT !.pc = "question"]
    /\ UNCHANGED <<fs, last, hist, procs, pureIn>>

\* destroySandbox: syncFromSandbox is done (it catches its failures);
\* sandbox.delete() is called
SyncDone ==
    /\ Running /\ pureOut.syncing > 0
    /\ pureOut' = [pureOut EXCEPT !.syncing = @ - 1, !.deleting = @ + 1,
                                  !.calls = Append(@, "delete")]
    /\ UNCHANGED <<fs, last, hist, procs, pureIn>>

\* sandbox.delete() resolves: rl.close() and process.exit(0)
DeleteDone ==
    /\ Running /\ pureOut.deleting > 0
    /\ pureOut' = [pureOut EXCEPT !.deleting = @ - 1, !.exit = "exit(0)"]
    /\ UNCHANGED <<fs, last, hist, procs, pureIn>>

\* sandbox.delete() rejects: the handler (or main() awaiting it) rejects
DeleteFails ==
    /\ Running /\ pureOut.deleting > 0
    /\ pureOut' = [pureOut EXCEPT !.deleting = @ - 1, !.exit = "rejected"]
    /\ UNCHANGED <<fs, last, hist, procs, pureIn>>

NextDaytona ==
    \/ CreateSandbox \/ CreateFails \/ UploadDone \/ UploadFails
    \/ Signal \/ Question \/ Turn
    \/ SyncDone \/ DeleteDone \/ DeleteFails

SpecDaytona == InitDaytona /\ [][NextDaytona]_vars

\* syncFromSandbox was called, and sandbox.delete() after it
SyncedThenDeleted ==
    \E i, j \in 1..Len(pureOut.calls) :
        /\ i < j
        /\ pureOut.calls[i] = "syncFromSandbox"
        /\ pureOut.calls[j] = "delete"

\* C26: in every run in which a sandbox was created, the process does not
\* end before destroySandbox was called and has called syncFromSandbox and
\* then sandbox.delete().
C26_DestroyedBeforeExit ==
    (pureOut.sandbox /\ ~Running) => SyncedThenDeleted

(***************************************************************************)
(* send.js: the send tool and its allow list                               *)
(***************************************************************************)
\* config.js: CONFIG.resend.allowedRecipients from the environment variable
\* RESEND_ALLOWED_RECIPIENTS (unset, or its text)
allowedRecipients(env) ==
    IF ~env.set \/ env.value = <<>>
    THEN [null |-> TRUE, list |-> <<>>]
    ELSE LET pieces == SplitOn(env.value, {","})
         IN  [null |-> FALSE,
              list |-> [k \in 1..Len(pieces) |-> ToLowerCase(Trim(pieces[k]))]]

isRecipientAllowed(email, allowedList) ==
    IF allowedList.null \/ Len(allowedList.list) = 0 THEN TRUE
    ELSE LET normalizedEmail == ToLowerCase(email)
             parts == SplitOn(normalizedEmail, {"@"})
         IN  \E k \in 1..Len(allowedList.list) :
                 LET pattern == allowedList.list[k]
                 IN  IF StartsWith(pattern, <<"@">>)
                     \* domain === pattern.slice(1), domain being split('@')[1]
                     THEN Len(parts) >= 2 /\ parts[2] = DropFirst(pattern, 1)
                     ELSE normalizedEmail = pattern

validateRecipients(recipients, allowedList) ==
    IF allowedList.null \/ Len(allowedList.list) = 0
    THEN [valid |-> TRUE, blocked |-> <<>>]
    ELSE LET Blocked(email) == ~isRecipientAllowed(email, allowedList)
             blocked == SelectSeq(recipients, Blocked)
         IN  IF Len(blocked) > 0 THEN [valid |-> FALSE, blocked |-> blocked]
             ELSE [valid |-> TRUE, blocked |-> <<>>]

MaxRecipients == 50

SendResult(success, error, blocked, sent, to) ==
    [done |-> TRUE, success |-> success, error |-> error, blocked |-> blocked,
     sendEmail |-> sent, to |-> to]

\* execute(args) of the send tool; args.to is absent, a string or an array
\* of strings; api is what the Resend client does when it is called
SendExecute(args, config, api) ==
    LET hasTo == \/ args.to.kind = "array"
                 \/ args.to.kind = "string" /\ args.to.value # <<>>
        recipients == IF args.to.kind = "array" THEN args.to.value
                      ELSE <<args.to.value>>
        check == validateRecipients(recipients, config.allowedRecipients)
    IN  IF ~hasTo /\ ~args.segment
        THEN SendResult(FALSE, "no target", <<>>, FALSE, <<>>)
        ELSE IF hasTo /\ args.segment
        THEN SendResult(FALSE, "both targets", <<>>, FALSE, <<>>)
        ELSE IF ~args.body /\ ~args.template
        THEN SendResult(FALSE, "no content", <<>>, FALSE, <<>>)
        ELSE IF ~config.defaultFrom
        THEN SendResult(FALSE, "no sender", <<>>, FALSE, <<>>)
        ELSE IF hasTo
        THEN IF Len(recipients) > MaxRecipients
             THEN SendResult(FALSE, "too many", <<>>, FALSE, <<>>)
             ELSE IF ~check.valid
             THEN SendResult(FALSE, "not allowed", check.blocked, FALSE, <<>>)
             ELSE IF api = "resolves"
             THEN SendResult(TRUE, "", <<>>, TRUE, recipients)
             ELSE SendResult(FALSE, "api", <<>>, TRUE, recipients)
        \* broadcast to a segment: sendEmail is not called
        ELSE IF api = "resolves"
             THEN SendResult(TRUE, "", <<>>, FALSE, <<>>)
             ELSE SendResult(FALSE, "api", <<>>, FALSE, <<>>)

(***************************************************************************)
(* Specification SpecSend: the send tool on recipients of up to            *)
(* MaxAddressLen characters and a few allow lists                          *)
(***************************************************************************)
MaxAddressLen == 5

Addresses == StringsUpTo({"a", "B", "@"}, MaxAddressLen)

AllowLists ==
    {[set |-> FALSE, value |-> <<>>], [set |-> TRUE, value |-> <<>>],
     [set |-> TRUE, value |-> <<"a", "@", "b">>],
     [set |-> TRUE, value |-> <<"@", "B">>],
     [set |-> TRUE, value |-> <<"b", "@", "a", ",", " ", "@", "b">>]}

SendTargets ==
    {[kind |-> "none", value |-> <<>>]}
        \cup {[kind |-> "string", value |-> r] : r \in Addresses}
        \cup {[kind |-> "array", value |-> <<>>]}
        \cup {[kind |-> "array", value |-> <<r, s>>] :
                  r \in Addresses, s \in {<<"a", "@", "b">>, <<"b">>}}
        \cup {[kind |-> "array", value |-> [k \in 1..n |-> <<"a", "@", "b">>]] :
                  n \in {MaxRecipients, MaxRecipients + 1}}

InitSend ==
    /\ fs = Idle.fs /\ last = Idle.last /\ hist = Idle.hist /\ procs = Idle.procs
    /\ \E env \in AllowLists :
          pureIn \in [fn : {"send"},
                      args : [to : SendTargets, segment : BOOLEAN,
                              body : BOOLEAN, template : {FALSE}],
                      config : [allowedRecipients : {allowedRecipients(env)},
                                defaultFrom : BOOLEAN]]
    /\ pureOut = Pending

CallSend ==
    /\ pureOut = Pending
    /\ \E api \in {"resolves", "rejects"} :
          pureOut' = SendExecute(pureIn.args, pureIn.config, api)
    /\ UNCHANGED <<fs, last, hist, procs, pureIn>>

NextSend == CallSend

SpecSend == InitSend /\ [][NextSend]_vars

\* the part of an address after its last '@'
DomainOf(address) ==
    LET parts == SplitOn(address, {"@"}) IN parts[Len(parts)]

\* the recipient is an entry of the list, or its domain is a '@domain' entry
OnAllowList(recipient, list) ==
    LET address == ToLowerCase(recipient)
    IN  \E k \in 1..Len(list) :
            \/ list[k] = address
            \/ /\ StartsWith(list[k], <<"@">>)
               /\ \E i \in 1..Len(address) : address[i] = "@"
               /\ DropFirst(list[k], 1) = DomainOf(address)

IndividualSend == pureOut.done /\ pureOut.error \notin
    {"no target", "both targets", "no content", "no sender", "too many"}
    /\ ~pureIn.args.segment

SendRecipients ==
    IF pureIn.args.to.kind = "array" THEN pureIn.args.to.value
    ELSE <<pureIn.args.to.value>>

\* C27: with a configured, non-empty allow list, sendEmail is called for an
\* individual send only if every recipient is on the list (its address, or
\* '@' and its domain, compared case-insensitively); otherwise the result
\* is success=false naming the recipients that are not, and nothing is
\* sent; with no list every recipient is allowed.
C27_OnlyAllowedRecipients ==
    IndividualSend =>
        LET list == pureIn.config.allowedRecipients.list
            off == SelectSeq(SendRecipients, LAMBDA r : ~OnAllowList(r, list))
        IN  IF Len(list) > 0
            THEN /\ pureOut.sendEmail => Len(off) = 0
                 /\ Len(off) > 0 =>
                        /\ ~pureOut.sendEmail /\ ~pureOut.success
                        /\ \A i \in 1..Len(off) :
                               \E j \in 1..Len(pureOut.blocked) :
                                   pureOut.blocked[j] = off[i]
            ELSE pureOut.sendEmail

(***************************************************************************)
(* ai.js: runAgentLoop of 01_agent (a for loop) and of 02_daytona (a       *)
(* recursion), for one user input                                          *)
(***************************************************************************)
\* for (let i = 0; i < maxIterations; i++) of 01_agent; the negation of
\* if (iteration >= maxIterations) throw of 02_daytona
LoopGoesOn(i, maxIterations) == i < maxIterations

\* What a function_call of a model output makes of executeCall:
\*   "ok"        the tool returns its result
\*   "unknown"   no tool of that name: executeTool throws
\*   "throws"    the tool rejects
\*   "reference" an @workspace: reference in the arguments cannot be read
\*   "malformed" the arguments are not JSON: safeJsonParse gives {}
\*   "null"      the arguments are the JSON text null
CallKinds == {"ok", "unknown", "throws", "reference", "malformed", "null"}

Fulfilled(callId, output) ==
    [rejected |-> FALSE, type |-> "function_call_output", call_id |-> callId,
     output |-> output]
RejectedWith(message) ==
    [rejected |-> TRUE, type |-> "", call_id |-> 0, output |-> message]

\* executeCall of 01_agent
executeCall(call) ==
    \* logToolCall: formatArgs calls Object.entries(args) outside the try
    IF call.kind = "null" THEN RejectedWith("TypeError")
    \* a reference that cannot be read is left as it is; executeTool in try
    ELSE IF call.kind \in {"unknown", "throws"}
         THEN Fulfilled(call.call_id, "Error: message")
         ELSE Fulfilled(call.call_id, "result")

\* executeCall of 02_daytona: nothing is caught
executeCallDaytona(call) ==
    IF call.kind \in {"null", "unknown", "throws"} THEN RejectedWith("Error")
    ELSE Fulfilled(call.call_id, "result")

(***************************************************************************)
(* Specification SpecAgent.  pureOut holds the call of runAgentLoop:       *)
(*   pc          "completion" (at the head of the loop), "tools" (awaiting *)
(*               Promise.all), "returned" or "threw"                       *)
(*   i           the loop variable i, or the parameter iteration           *)
(*   completions the calls of createCompletion made so far                 *)
(*   toolCalls   the function_call items of the last output                *)
(*   results     what executeCall made of each of them so far              *)
(*   messages    the input of the next completion                          *)
(*   session     what main() does with the outcome                         *)
(***************************************************************************)
MaxLoopIterations == 2
MaxToolCalls == 2

NoResult == [rejected |-> FALSE, type |-> "pending", call_id |-> 0, output |-> ""]
UserInput == <<[rejected |-> FALSE, type |-> "message", call_id |-> 0,
               output |-> "input"]>>

ToolCallLists ==
    UNION {[1..n -> CallKinds] : n \in 1..MaxToolCalls}

InitAgent ==
    /\ fs = Idle.fs /\ last = Idle.last /\ hist = Idle.hist /\ procs = Idle.procs
    /\ pureIn \in [loop : {"01_agent", "02_daytona"},
                    maxIterations : 1..MaxLoopIterations]
    /\ pureOut = [pc |-> "completion", i |-> 0, completions |-> 0,
                  toolCalls |-> <<>>, results |-> <<>>, messages |-> UserInput,
                  completed |-> FALSE, text |-> "", session |-> "turn"]

\* createCompletion is called and rejects (fetch fails or data.error)
CompletionFails ==
    /\ pureOut.pc = "completion"
    /\ LoopGoesOn(pureOut.i, pureIn.maxIterations)
    /\ pureOut' = [pureOut EXCEPT !.completions = @ + 1, !.pc = "threw",
                                  !.toolCalls = <<>>, !.results = <<>>,
                                  !.text = "api error"]
    /\ UNCHANGED <<fs, last, hist, procs, pureIn>>

\* createCompletion resolves with an output without function_call items
CompletionAnswers ==
    /\ pureOut.pc = "completion"
    /\ LoopGoesOn(pureOut.i, pureIn.maxIterations)
    /\ pureOut' = [pureOut EXCEPT !.completions = @ + 1, !.pc = "returned",
                                  !.toolCalls = <<>>, !.results = <<>>,
                                  !.completed = TRUE, !.text = "answer"]
    /\ UNCHANGED <<fs, last, hist, procs, pureIn>>

\* createCompletion resolves with function_call items: executeCall is
\* started for each of them
CompletionCallsTools ==
    /\ pureOut.pc = "completion"
    /\ LoopGoesOn(pureOut.i, pureIn.maxIterations)
    /\ \E kinds \in ToolCallLists :
          pureOut' = [pureOut EXCEPT
              !.completions = @ + 1, !.pc = "tools",
              !.toolCalls = [k \in 1..Len(kinds) |->
                                [call_id |-> k, kind |-> kinds[k]]],
              !.results = [k \in 1..Len(kinds) |-> NoResult]]
    /\ UNCHANGED <<fs, last, hist, procs, pureIn>>

\* one executeCall settles; a rejection rejects Promise.all and with it
\* runAgentLoop
CallSettles ==
    /\ pureOut.pc = "tools"
    /\ \E k \in 1..Len(pureOut.toolCalls) :
          /\ pureOut.results[k] = NoResult
          /\ LET r == IF pureIn.loop = "01_agent"
                      THEN executeCall(pureOut.toolCalls[k])
                      ELSE executeCallDaytona(pureOut.toolCalls[k])
             IN  pureOut' = IF r.rejected
                            THEN [pureOut EXCEPT !.pc = "threw", !.text = r.output]
                            ELSE [pureOut EXCEPT !.results[k] = r]
    /\ UNCHANGED <<fs, last, hist, procs, pureIn>>

\* Promise.all resolves: the results are the next input
ToolsDone ==
    /\ pureOut.pc = "tools"
    /\ \A k \in 1..Len(pureOut.toolCalls) : pureOut.results[k] # NoResult
    /\ pureOut' = [pureOut EXCEPT !.pc = "completion", !.i = @ + 1,
                                  !.messages = pureOut.results]
    /\ UNCHANGED <<fs, last, hist, procs, pureIn>>

\* the iterations are used up: 01_agent leaves the for loop and returns,
\* 02_daytona throws at the head of the call
IterationsUsedUp ==
    /\ pureOut.pc = "completion"
    /\ ~LoopGoesOn(pureOut.i, pureIn.maxIterations)
    /\ pureOut' = IF pureIn.loop = "01_agent"
                  THEN [pureOut EXCEPT !.pc = "returned", !.completed = FALSE,
                                       !.text = "[Max iterations reached]"]
                  ELSE [pureOut EXCEPT !.pc = "threw",
                                       !.text = "Max iterations reached"]
    /\ UNCHANGED <<fs, last, hist, procs, pureIn>>

\* main(): a rejection is caught and printed; 01_agent leaves its loop when
\* the result is not completed
MainGoesOn ==
    /\ pureOut.pc \in {"returned", "threw"}
    /\ pureOut.session = "turn"
    /\ pureOut' = [pureOut EXCEPT !.session =
                      IF pureIn.loop = "01_agent" /\ pureOut.pc = "returned"
                         /\ ~pureOut.completed
                      THEN "ended" ELSE "question"]
    /\ UNCHANGED <<fs, last, hist, procs, pureIn>>

NextAgent ==
    \/ CompletionFails \/ CompletionAnswers \/ CompletionCallsTools
    \/ CallSettles \/ ToolsDone \/ IterationsUsedUp \/ MainGoesOn

SpecAgent == InitAgent /\ [][NextAgent]_vars

\* every await settles: the completion request, each tool call
SpecAgentFair == SpecAgent /\ WF_vars(NextAgent)

AgentStopped == pureOut.pc \in {"returned", "threw"}

\* the last allowed completion was made and its output asked for tools
AskedForToolsAtLimit ==
    /\ pureOut.completions = pureIn.maxIterations
    /\ pureOut.toolCalls # <<>>

\* C28: runAgentLoop makes at most maxIterations completions and then
\* stops; once it has stopped after the last allowed completion asked for
\* tools, 01_agent has returned completed=false with the text
\* '[Max iterations reached]', on which main() ends the session, and
\* 02_daytona has thrown 'Max iterations reached'; every call stops.
C28_LoopBounded ==
    /\ [](pureOut.completions <= pureIn.maxIterations)
    /\ []((AgentStopped /\ AskedForToolsAtLimit) =>
             IF pureIn.loop = "01_agent"
             THEN /\ pureOut.pc = "returned" /\ ~pureOut.completed
                  /\ pureOut.text = "[Max iterations reached]"
                  /\ pureOut.session \in {"turn", "ended"}
             ELSE /\ pureOut.pc = "threw"
                  /\ pureOut.text = "Max iterations reached")
    /\ <>AgentStopped

\* C29: in 01_agent the input of a completion that follows function_call
\* items holds exactly one function_call_output for each of them, with its
\* call_id; and runAgentLoop is never rejected by a tool call.
C29_EveryCallAnswered ==
    pureIn.loop = "01_agent" =>
        /\ (pureOut.pc = "completion" /\ pureOut.i > 0) =>
               /\ Len(pureOut.messages) = Len(pureOut.toolCalls)
               /\ \A k \in 1..Len(pureOut.toolCalls) :
                      /\ pureOut.messages[k].type = "function_call_output"
                      /\ pureOut.messages[k].call_id = pureOut.toolCalls[k].call_id
        /\ pureOut.pc = "threw" => pureOut.text = "api error"

\* ---------------------------------------------------------------------
\* firecrawl-client.js: FirecrawlClient.request
\* ---------------------------------------------------------------------

maxRetries == 3
retryAfterMs == 1000

\* a body response.json() rejects on
NotJson == [json |-> FALSE]
\* fetch itself rejects: there is no response
FetchFailed == [settled |-> "rejected"]
\* no Retry-After header (null), no error caught yet (null)
NoHeader == <<>>
NoError == <<>>

\* what one fetch can bring: a rejection, or a response with its status, its
\* Retry-After header and its body
Responses ==
    [settled : {"response"}, status : {429},
     retryAfter : {NoHeader, <<"2">>}, body : {NotJson}]
      \cup [settled : {"response"}, status : {503},
            retryAfter : {NoHeader}, body : {NotJson}]
      \cup [settled : {"response"}, status : {200}, retryAfter : {NoHeader},
            body : {NotJson} \cup [json : {TRUE}, error : {NoVal},
                                   markdown : {"v1", "v2"}]]
      \cup [settled : {"response"}, status : {400}, retryAfter : {NoHeader},
            body : {NotJson} \cup [json : {TRUE},
                                   error : {NoVal, "bad request"},
                                   markdown : {NoVal}]]

FetchOutcomes == {FetchFailed} \cup Responses

\* Response.ok
ResponseOk(response) == response.status >= 200 /\ response.status <= 299

\* the for loop's condition
RetryGoesOnOnceMore(attempt) == attempt <= maxRetries + 1
RetryGoesOn(attempt) == attempt <= maxRetries

\* the delay after a 429
RetryAfterWait(response, attempt) ==
    IF response.retryAfter # NoHeader
    THEN ParseInt(response.retryAfter) * 1000
    ELSE retryAfterMs * (attempt + 1)

\* the error the catch block receives
CaughtError(attempt, error) ==
    [kind |-> "caught", error |-> error,
     wait |-> IF attempt < maxRetries THEN retryAfterMs * (attempt + 1)
              ELSE 0]

\* the body of the loop from the fetch on, for one outcome of the fetch
RequestAttempt(outcome, attempt) ==
    IF outcome.settled = "rejected" THEN CaughtError(attempt, <<"fetch failed">>)
    ELSE IF outcome.status = 429
    THEN [kind |-> "continue", wait |-> RetryAfterWait(outcome, attempt)]
    ELSE IF outcome.status >= 500
    THEN [kind |-> "continue", wait |-> retryAfterMs * (attempt + 1)]
    ELSE IF ~outcome.body.json THEN CaughtError(attempt, <<"SyntaxError">>)
    ELSE IF ~ResponseOk(outcome)
    THEN CaughtError(attempt, IF outcome.body.error # NoVal
                              THEN <<outcome.body.error>>
                              ELSE <<"HTTP", outcome.status>>)
    ELSE [kind |-> "return", data |-> outcome.body]

InitRequest ==
    /\ fs = Idle.fs /\ last = Idle.last /\ hist = Idle.hist /\ procs = Idle.procs
    /\ pureIn \in [path : {"/scrape"}, method : {"POST", "GET"}]
    /\ pureOut = [pc |-> "acquire", attempt |-> 0, acquires |-> 0,
                  fetches |-> <<>>, lastError |-> NoError, wait |-> 0,
                  data |-> NotJson, text |-> NoError]

\* rateLimiter.acquire() finds a token
AcquireToken ==
    /\ pureOut.pc = "acquire"
    /\ RetryGoesOn(pureOut.attempt)
    /\ pureOut' = [pureOut EXCEPT !.acquires = @ + 1, !.pc = "fetch"]
    /\ UNCHANGED <<fs, last, hist, procs, pureIn>>

\* rateLimiter.acquire() finds no token and sleeps
AcquireWaits ==
    /\ pureOut.pc = "acquire"
    /\ RetryGoesOn(pureOut.attempt)
    /\ pureOut' = [pureOut EXCEPT !.pc = "refill"]
    /\ UNCHANGED <<fs, last, hist, procs, pureIn>>

\* the limiter's sleep is over: the token is taken
AcquireAfterWait ==
    /\ pureOut.pc = "refill"
    /\ pureOut' = [pureOut EXCEPT !.acquires = @ + 1, !.pc = "fetch"]
    /\ UNCHANGED <<fs, last, hist, procs, pureIn>>

\* the fetch settles and the rest of the loop body runs up to its sleep
Fetch ==
    /\ pureOut.pc = "fetch"
    /\ \E outcome \in FetchOutcomes :
          LET step == RequestAttempt(outcome, pureOut.attempt)
              fetched == [pureOut EXCEPT !.fetches = Append(@, outcome)]
          IN  pureOut' =
                  IF step.kind = "return"
                  THEN [fetched EXCEPT !.pc = "returned", !.data = step.data]
                  ELSE IF step.kind = "continue"
                  THEN [fetched EXCEPT !.pc = "sleep", !.wait = step.wait]
                  ELSE [fetched EXCEPT !.pc = "sleep", !.wait = step.wait,
                                       !.lastError = step.error]
    /\ UNCHANGED <<fs, last, hist, procs, pureIn>>

\* the sleep before the next attempt is over (no sleep after a caught error
\* of the last attempt)
SleepOver ==
    /\ pureOut.pc = "sleep"
    /\ pureOut' = [pureOut EXCEPT !.pc = "acquire", !.attempt = @ + 1,
                                  !.wait = 0]
    /\ UNCHANGED <<fs, last, hist, procs, pureIn>>

\* the loop is left: throw lastError ?? new Error('Max retries exceeded')
RetriesExhausted ==
    /\ pureOut.pc = "acquire"
    /\ ~RetryGoesOn(pureOut.attempt)
    /\ pureOut' = [pureOut EXCEPT !.pc = "threw",
                     !.text = IF pureOut.lastError # NoError
                              THEN pureOut.lastError
                              ELSE <<"Max retries exceeded">>]
    /\ UNCHANGED <<fs, last, hist, procs, pureIn>>

NextRequest ==
    \/ AcquireToken \/ AcquireWaits \/ AcquireAfterWait
    \/ Fetch \/ SleepOver \/ RetriesExhausted

SpecRequest == InitRequest /\ [][NextRequest]_vars

\* every timer fires and every fetch settles
SpecRequestFair == SpecRequest /\ WF_vars(NextRequest)

RequestStopped == pureOut.pc \in {"returned", "threw"}

\* one acquire was completed for every fetch made, and one more when the
\* next fetch is about to be made
OneAcquirePerFetch ==
    pureOut.acquires = Len(pureOut.fetches)
                         + (IF pureOut.pc = "fetch" THEN 1 ELSE 0)

\* attempts whose response is ok / is ok with a body that parses
OkAttempts ==
    {k \in 1..Len(pureOut.fetches) :
        /\ pureOut.fetches[k].settled = "response"
        /\ ResponseOk(pureOut.fetches[k])}
ParsedOkAttempts == {k \in OkAttempts : pureOut.fetches[k].body.json}

\* attempts that ended in the catch block
ThrowingAttempts ==
    {k \in 1..Len(pureOut.fetches) :
        \/ pureOut.fetches[k].settled = "rejected"
        \/ /\ pureOut.fetches[k].settled = "response"
           /\ pureOut.fetches[k].status # 429
           /\ pureOut.fetches[k].status < 500
           /\ \/ ~pureOut.fetches[k].body.json
              \/ ~ResponseOk(pureOut.fetches[k])}

\* a stopped call, given the attempts that count as successful: it returned
\* the body of the first of them, or there is none and it threw after
\* maxRetries + 1 attempts
StoppedAsClaimed(successful) ==
    IF successful # {}
    THEN LET first == CHOOSE k \in successful : \A j \in successful : k <= j
         IN  /\ pureOut.pc = "returned"
             /\ pureOut.data = pureOut.fetches[first].body
             /\ Len(pureOut.fetches) = first
    ELSE /\ pureOut.pc = "threw"
         /\ Len(pureOut.fetches) = maxRetries + 1
         /\ IF ThrowingAttempts = {}
            THEN pureOut.text = <<"Max retries exceeded">>
            ELSE pureOut.text = pureOut.lastError /\ pureOut.lastError # NoError

\* C30 (as stated): request makes at most maxRetries + 1 fetches, each after
\* exactly one acquire; it returns the body of the first attempt whose
\* response is ok, goes on to the next attempt after a 429, a 5xx or a thrown
\* error, throws the last error (or 'Max retries exceeded') after the last
\* attempt failed, and always stops.
C30_RequestRetries ==
    /\ [](Len(pureOut.fetches) <= maxRetries + 1)
    /\ []OneAcquirePerFetch
    /\ [](RequestStopped => StoppedAsClaimed(OkAttempts))
    /\ <>RequestStopped

\* C30 (amended): as above, where the attempt whose body is returned is the
\* first whose response is ok and whose body parses as JSON; an ok response
\* with a body that is not JSON is a thrown error like the others and the
\* call goes on to the next attempt.
C30_RequestRetriesParsed ==
    /\ [](Len(pureOut.fetches) <= maxRetries + 1)
    /\ []OneAcquirePerFetch
    /\ [](RequestStopped => StoppedAsClaimed(ParsedOkAttempts))
    /\ <>RequestStopped

\* a 429, a 503 and a rejected fetch were each followed by one more attempt,
\* and the fourth attempt's ok response was returned
C30_Witness ==
    /\ pureOut.pc = "returned"
    /\ pureOut.acquires = maxRetries + 1
    /\ Len(pureOut.fetches) = maxRetries + 1
    /\ pureOut.fetches[1].settled = "response"
    /\ pureOut.fetches[1].status = 429
    /\ pureOut.fetches[2].settled = "response"
    /\ pureOut.fetches[2].status = 503
    /\ pureOut.fetches[3].settled = "rejected"
    /\ pureOut.data.json /\ pureOut.data.markdown = "v2"

(***************************************************************************)
(* Specification SpecCreate: the fs_write create calls of one model        *)
(* response, started together by runAgentLoop (Promise.all).  createFile   *)
(* awaits fileExists, fs.mkdir and fs.writeFile; between two awaits the    *)
(* other call runs.                                                        *)
(***************************************************************************)
\* call p creates x.md or x.md/d with its own number as content
CreateRequests(p) ==
    {WriteArgs(path, "create", "", ToStr(p), <<>>, <<>>, FALSE, <<>>, dryRun) :
        path \in {XMd, XMdD}, dryRun \in BOOLEAN}

InitCreate ==
    /\ fs = EmptyTree
    /\ procs = [p \in 1..MaxProcs |-> IdleProc]
    /\ last = Pending /\ hist = Idle.hist
    /\ pureIn = Pending /\ pureOut = Pending

\* execute is called; it resolves the path and enters createFile
CreateCall(p, args) ==
    /\ procs[p].pc = "idle"
    /\ procs' = [procs EXCEPT ![p].pc = "exists", ![p].args = args]
    /\ UNCHANGED <<fs, last, hist, pureIn, pureOut>>

\* await fileExists, then the dryRun return
CreateExists(p) ==
    LET absPath == ExecuteResolve(procs[p].args.path).absolutePath
    IN  /\ procs[p].pc = "exists"
        /\ procs' = IF fileExists(fs, absPath)
                    THEN Finish(p, WriteError("create", "ALREADY_EXISTS"))
                    ELSE IF procs[p].args.dryRun
                    THEN Finish(p, WriteResult(TRUE, "create", "false", "",
                                               "would_create", <<>>))
                    ELSE [procs EXCEPT ![p].pc = "mkdir"]
        /\ UNCHANGED <<fs, last, hist, pureIn, pureOut>>

\* await fs.mkdir(path.dirname(absPath), { recursive: true })
CreateMkdir(p) ==
    LET absPath == ExecuteResolve(procs[p].args.path).absolutePath
        made == FsMkdir(fs, Dirname(absPath))
    IN  /\ procs[p].pc = "mkdir"
        /\ fs' = made.fs
        /\ procs' = IF ~made.ok THEN Finish(p, Rejected("create", made.errno))
                    ELSE [procs EXCEPT ![p].pc = "write"]
        /\ UNCHANGED <<last, hist, pureIn, pureOut>>

\* await fs.writeFile, then the result is returned; overwritten records the
\* content the write replaced
CreateWrite(p) ==
    LET absPath == ExecuteResolve(procs[p].args.path).absolutePath
        written == FsWriteFile(fs, absPath, procs[p].args.content)
    IN  /\ procs[p].pc = "write"
        /\ fs' = written.fs
        /\ procs' = IF ~written.ok THEN Finish(p, Rejected("create", written.errno))
                    ELSE [procs EXCEPT ![p].pc = "done",
                            ![p].overwritten = NodeAt(fs, absPath).content,
                            ![p].res = WriteResult(TRUE, "create", "true", "",
                                         "created",
                                         generateChecksum(procs[p].args.content))]
        /\ UNCHANGED <<last, hist, pureIn, pureOut>>

NextCreate ==
    \E p \in 1..MaxProcs :
        \/ \E args \in CreateRequests(p) : CreateCall(p, args)
        \/ CreateExists(p)
        \/ CreateMkdir(p)
        \/ CreateWrite(p)

SpecCreate == InitCreate /\ [][NextCreate]_vars

\* two finished create calls on the same path, neither a dry run
CreatedTogether(p, q) ==
    /\ p # q
    /\ procs[p].pc = "done" /\ procs[q].pc = "done"
    /\ procs[p].args.path = procs[q].args.path
    /\ ~procs[p].args.dryRun /\ ~procs[q].args.dryRun

\* C31: in every interleaving of two concurrent create calls on the same
\* absent path, at most one returns applied=true and the other returns
\* ALREADY_EXISTS, and the file holds the content of the successful create.
C31_OneCreateWins ==
    \A p, q \in 1..MaxProcs :
        (CreatedTogether(p, q) /\ procs[p].res.applied = "true") =>
            /\ procs[q].res.applied # "true"
            /\ procs[q].res.code = "ALREADY_EXISTS"
            /\ NodeAt(fs, ExecuteResolve(procs[p].args.path).absolutePath)
                   = FileNode(procs[p].args.content)

(***************************************************************************)
(* Specification SpecRange: updateFile, from the content it read to the    *)
(* content it writes, for the actions replace and delete_lines with a      *)
(* lines argument, on contents whose lines all differ                      *)
(***************************************************************************)
MaxRangeLines == 3

RangeLineNames == <<"a", "b", "c", "d">>

\* the contents of 1..MaxRangeLines lines: a, a\nb, a\nb\nc, and the same
\* ending in a newline (a last, empty line)
RangeContents ==
    {JoinLines([k \in 1..n |-> <<RangeLineNames[k]>>]) \o tail :
        n \in 1..MaxRangeLines, tail \in {<<>>, <<NL>>}}

\* lines arguments: single lines and ranges, from line 0 to past the end
RangeArgs ==
    {ToStr(s) : s \in 0..(MaxRangeLines + 1)}
      \cup {ToStr(s) \o <<"-">> \o ToStr(e) :
              s \in 0..MaxRangeLines, e \in 1..(MaxRangeLines + 1)}

InitRange ==
    /\ fs = Idle.fs /\ last = Idle.last /\ hist = Idle.hist /\ procs = Idle.procs
    /\ pureIn \in [content : RangeContents, lines : RangeArgs,
                   action : {"replace", "delete_lines"}, replacement : {<<"x">>}]
    /\ pureOut = Pending

\* updateFile on a file with content pureIn.content
CallUpdateRange ==
    /\ pureOut = Pending
    /\ LET input == WriteArgs(XMd, "update", pureIn.action, pureIn.replacement,
                              pureIn.lines, <<>>, FALSE, <<>>, FALSE)
           plan == UpdatePlan(input, pureIn.content)
       IN  pureOut' = [done |-> TRUE, accepted |-> plan.write,
                       code |-> plan.res.code, newContent |-> plan.newContent]
    /\ UNCHANGED <<fs, last, hist, procs, pureIn>>

NextRange == CallUpdateRange

SpecRange == InitRange /\ [][NextRange]_vars

\* how many lines of a content are equal to one line
TimesIn(line, lines) == Cardinality({k \in 1..Len(lines) : lines[k] = line})

\* C32: for every update with a lines argument the orchestrator accepts
\* (lines "0" and "0-k" included), delete_lines leaves the lines outside
\* start..min(end, N), in their order, and nothing else: the result has
\* N - (min(end, N) - start + 1) of the N lines and holds no original line
\* twice; replace keeps every line outside the range exactly once.
C32_RangeRemovedOnce ==
    (pureOut # Pending /\ pureOut.accepted) =>
        LET original == SplitLines(pureIn.content)
            N == Len(original)
            range == parseLineRange(pureIn.lines)
            start == range.start
            end == Min(range.end, N)
            kept == [k \in 1..(N - (end - start + 1)) |->
                        IF k < start THEN original[k]
                        ELSE original[k + (end - start + 1)]]
            result == SplitLines(pureOut.newContent)
        IN  IF pureIn.action = "delete_lines"
            THEN /\ pureOut.newContent = JoinLines(kept)
                 /\ \A k \in 1..N : TimesIn(original[k], result) <= 1
            ELSE \A k \in 1..N :
                     (k < start \/ k > end) => TimesIn(original[k], result) = 1

(***************************************************************************)
(* Specification SpecReadRange: readFile of fs_read with a lines argument, *)
(* on the contents and the ranges of SpecRange                             *)
(***************************************************************************)
InitReadRange ==
    /\ fs = Idle.fs /\ last = Idle.last /\ hist = Idle.hist /\ procs = Idle.procs
    /\ pureIn \in [content : RangeContents, lines : RangeArgs]
    /\ pureOut = Pending

\* readFile on x.md holding pureIn.content
CallReadRange ==
    /\ pureOut = Pending
    /\ LET tree == [EmptyTree EXCEPT ![XMdPath] = FileNode(pureIn.content)]
           res == readFile(tree, XMdPath, XMd, pureIn.lines)
       IN  pureOut' = [done |-> TRUE, success |-> res.success, text |-> res.text,
                       range |-> res.range, totalLines |-> res.totalLines]
    /\ UNCHANGED <<fs, last, hist, procs, pureIn>>

NextReadRange == CallReadRange

SpecReadRange == InitReadRange /\ [][NextReadRange]_vars

\* C33: every successful read with a lines argument has a range with
\* 1 <= start <= end <= totalLines, and its text is the lines start..end of
\* the file, one numbered line each, numbered with their own line numbers.
C33_ReadRangeWithinFile ==
    (pureOut # Pending /\ pureOut.success) =>
        LET original == SplitLines(pureIn.content)
            start == pureOut.range[1]
            end == pureOut.range[2]
            numbered == SplitLines(pureOut.text)
        IN  /\ pureOut.totalLines = Len(original)
            /\ 1 <= start /\ start <= end /\ end <= pureOut.totalLines
            /\ Len(numbered) = end - start + 1
            /\ \A i \in 1..Len(numbered) :
                   numbered[i] = PadStart(ToStr(start + i - 1), Len(ToStr(end)))
                                     \o <<"|">> \o original[start + i - 1]

(***************************************************************************)
(* Specification SpecDepth: the three traversals of fs_read on the         *)
(* workspace root with the same depth argument, over the trees of SpecWalk *)
(***************************************************************************)
InitDepth ==
    /\ fs \in {t \in WalkTrees :
                 t[WalkDX].kind # "none" => t[WalkD].kind \in {"dir", "locked"}}
    /\ last = Idle.last /\ hist = Idle.hist /\ procs = Idle.procs
    /\ pureIn \in {WalkCall(fn, o, depth, 0, <<"d">>) :
                      fn \in {"listDirectory", "searchInDirectory", "searchFiles"},
                      o \in {<<WalkD, WalkX, WalkH, WalkDX>>,
                             <<WalkX, WalkH, WalkD, WalkDX>>},
                      depth \in 1..MaxListDepth}
    /\ pureOut = Pending

\* fs_read {path: '.', depth}
ListAtDepth ==
    /\ pureIn.fn = "listDirectory"
    /\ pureOut = Pending
    /\ LET res == listDirectory(fs, pureIn.order, Root, <<".">>, pureIn.depth, 0)
       IN  pureOut' = [done |-> TRUE,
                       paths |-> {res.entries[i].path : i \in 1..Len(res.entries)}]
    /\ UNCHANGED <<fs, last, hist, procs, pureIn>>

\* fs_read {path: '.', pattern: 'a', depth}
SearchAtDepth ==
    /\ pureIn.fn = "searchInDirectory"
    /\ pureOut = Pending
    /\ LET res == searchInDirectory(fs, pureIn.order, Root, <<".">>, <<"a">>,
                                    pureIn.depth)
       IN  pureOut' = [done |-> TRUE,
                       paths |-> {res.matches[i].file : i \in 1..Len(res.matches)}]
    /\ UNCHANGED <<fs, last, hist, procs, pureIn>>

\* fs_read {path: '.', find: 'd', depth}
FindAtDepth ==
    /\ pureIn.fn = "searchFiles"
    /\ pureOut = Pending
    /\ \E results \in searchFiles(fs, Root, pureIn.pattern, 50, TRUE, pureIn.depth) :
          pureOut' = [done |-> TRUE,
                      paths |-> {entry.relativePath : entry \in results}]
    /\ UNCHANGED <<fs, last, hist, procs, pureIn>>

NextDepth == ListAtDepth \/ SearchAtDepth \/ FindAtDepth

SpecDepth == InitDepth /\ [][NextDepth]_vars

\* C35: with the same directory and the same depth d, none of the three
\* traversals (listing, content search, find by name) returns an entry or a
\* match whose path relative to the requested directory has more than d
\* segments.
C35_SameDepth ==
    (pureOut # Pending) =>
        \A path \in pureOut.paths : Len(SplitOn(path, {Sep})) <= pureIn.depth

(***************************************************************************)
(* tools/index.js: readFile, the reader of @workspace:path references      *)
(***************************************************************************)
\* line.replace(/^\s*\d+\|/, '')
RECURSIVE DigitsAhead(_)
DigitsAhead(s) ==
    IF Len(s) > 0 /\ s[1] \in Digits THEN 1 + DigitsAhead(Tail(s)) ELSE 0

StripLineNumber(line) ==
    LET rest == TrimStart(line)
        digits == DigitsAhead(rest)
    IN  IF digits > 0 /\ Len(rest) > digits /\ rest[digits + 1] = "|"
        THEN DropFirst(rest, digits + 1)
        ELSE line

\* readFile(path): the content it resolves with, or the error it throws,
\* for each result fs_read can give
ReadFileForReference(f, path) ==
    {IF data.type = "file" /\ data.text # <<>>
     THEN [outcome |-> "returned",
           content |-> JoinLines([i \in 1..Len(SplitLines(data.text)) |->
                                     StripLineNumber(SplitLines(data.text)[i])])]
     ELSE [outcome |-> "thrown", content |-> <<>>] :
        data \in FsReadExecute(f, ReadArgs(path, <<>>, <<>>, <<>>))}

(***************************************************************************)
(* Specification SpecReference: readFile of a reference to x.md, a text    *)
(* file of 1 to PREVIEW_LINES + MaxExtraLines lines or an absent file      *)
(***************************************************************************)
ReferenceTrees ==
    {[p \in {Root, Root \o <<Sep>> \o XMd} |->
         IF p = Root THEN DirNode ELSE node] :
        node \in {NoNode} \cup
                 {FileNode(UniformContent(n, line)) :
                     n \in 1..(PREVIEW_LINES + MaxExtraLines),
                     line \in {<<>>, <<"a">>, <<" ", "7", "|", "a">>}}}

InitReference ==
    /\ fs \in ReferenceTrees
    /\ last = Idle.last /\ hist = Idle.hist /\ procs = Idle.procs
    /\ pureIn = [path |-> XMd]
    /\ pureOut = Pending

\* resolveReferencesInValue awaits readFile(path)
CallReadFileForReference ==
    /\ pureOut = Pending
    /\ \E res \in ReadFileForReference(fs, pureIn.path) :
          pureOut' = [done |-> TRUE, outcome |-> res.outcome,
                      content |-> res.content]
    /\ UNCHANGED <<fs, last, hist, procs, pureIn>>

NextReference == CallReadFileForReference

SpecReference == InitReference /\ [][NextReference]_vars

\* C36: readFile returns exactly the content of the referenced text file,
\* whatever its number of lines: with the line-number prefixes stripped,
\* every line of the file is there, unchanged, none missing.
C36_ReferenceIsWholeFile ==
    (pureOut # Pending /\ fs[XMdPath].kind = "file") =>
        /\ pureOut.outcome = "returned"
        /\ pureOut.content = fs[XMdPath].content

(***************************************************************************)
(* Specification SpecLimiter: concurrent calls of RateLimiter.acquire on   *)
(* one limiter.  Token amounts are counted in parts of a token and the     *)
(* clock in the time one part takes to refill, so that refillRate is one   *)
(* part per tick.                                                          *)
(***************************************************************************)
MaxTokenParts == 2
MaxRequestsPerMinute == 2
MaxAcquireCalls == 3
MaxClock == 6

\* one token, in parts
OneToken == MaxTokenParts

\* refill(): the limiter after it, at time now
Refill(limiter, now) ==
    [limiter EXCEPT
        !.tokens = Min(limiter.maxTokens, limiter.tokens + (now - limiter.lastRefill)),
        !.lastRefill = now]

\* new RateLimiter(requestsPerMinute), constructed at time 0
InitLimiter ==
    /\ fs = Idle.fs /\ last = Idle.last /\ hist = Idle.hist
    /\ pureIn \in [requestsPerMinute : 1..MaxRequestsPerMinute]
    /\ pureOut = [tokens |-> pureIn.requestsPerMinute * OneToken,
                  maxTokens |-> pureIn.requestsPerMinute * OneToken,
                  lastRefill |-> 0, now |-> 0, released |-> 0]
    /\ procs = [c \in 1..MaxAcquireCalls |-> [pc |-> "idle", wakeAt |-> 0]]

\* time passes
ClockTick ==
    /\ pureOut.now < MaxClock
    /\ pureOut' = [pureOut EXCEPT !.now = @ + 1]
    /\ UNCHANGED <<fs, last, hist, procs, pureIn>>

\* acquire() up to its return or its await of sleep(waitTime)
AcquireStart(c) ==
    LET filled == Refill(pureOut, pureOut.now)
    IN  /\ procs[c].pc = "idle"
        /\ IF filled.tokens >= OneToken
           THEN /\ pureOut' = [filled EXCEPT !.tokens = @ - OneToken,
                                             !.released = @ + 1]
                /\ procs' = [procs EXCEPT ![c].pc = "returned"]
           ELSE /\ pureOut' = filled
                /\ procs' = [procs EXCEPT ![c].pc = "sleeping",
                               ![c].wakeAt = pureOut.now + (OneToken - filled.tokens)]
        /\ UNCHANGED <<fs, last, hist, pureIn>>

\* the timer of sleep fires, at its time or later: refill(), tokens -= 1
AcquireWake(c) ==
    LET filled == Refill(pureOut, pureOut.now)
    IN  /\ procs[c].pc = "sleeping"
        /\ pureOut.now >= procs[c].wakeAt
        /\ pureOut' = [filled EXCEPT !.tokens = @ - OneToken, !.released = @ + 1]
        /\ procs' = [procs EXCEPT ![c].pc = "returned"]
        /\ UNCHANGED <<fs, last, hist, pureIn>>

NextLimiter ==
    \/ ClockTick
    \/ \E c \in 1..MaxAcquireCalls : AcquireStart(c) \/ AcquireWake(c)

SpecLimiter == InitLimiter /\ [][NextLimiter]_vars

\* C37: under any interleaving of concurrent acquire calls, the token count
\* never drops below 0 and never exceeds maxTokens, and the limiter has
\* released no more requests than the tokens it started with plus those
\* refilled since.
C37_TokensWithinBounds ==
    /\ pureOut.tokens >= 0
    /\ pureOut.tokens <= pureOut.maxTokens
    /\ pureOut.released * OneToken <= pureOut.maxTokens + pureOut.now

(***************************************************************************)
(* Specification SpecBatch: FirecrawlClient.batchScrape, one request per   *)
(* step: the request that starts the job, then one status poll per turn    *)
(* of the while loop                                                       *)
(***************************************************************************)
MaxPolls == 3

\* no 'next' in a status (undefined), no status polled yet
NoNext == <<>>
NoStatus == "none"

\* what a status poll can resolve with: the job's status, the page of data
\* it carries (or none), and the URL of the next page (or none)
BatchStatuses ==
    [status : {"scraping", "completed", "failed"},
     data : {<<>>, <<"page">>},
     next : {NoNext, <<"/", "n">>}]

InitBatch ==
    /\ fs = Idle.fs /\ last = Idle.last /\ hist = Idle.hist /\ procs = Idle.procs
    /\ pureIn \in [urls : {<<"u">>, <<"u", "v">>}]
    /\ pureOut = [pc |-> "start", nextUrl |-> NoNext, results |-> <<>>,
                  polls |-> 0, status |-> NoStatus, next |-> NoNext]

\* the request of /batch/scrape rejects, or resolves without success or id
StartFails ==
    /\ pureOut.pc = "start"
    /\ pureOut' = [pureOut EXCEPT !.pc = "threw"]
    /\ UNCHANGED <<fs, last, hist, procs, pureIn>>

\* the request of /batch/scrape resolves with the job id
StartBatch ==
    /\ pureOut.pc = "start"
    /\ pureOut' = [pureOut EXCEPT !.pc = "polling", !.nextUrl = <<"/", "j">>]
    /\ UNCHANGED <<fs, last, hist, procs, pureIn>>

\* one turn of while (nextUrl), whose status request rejects
PollFails ==
    /\ pureOut.pc = "polling"
    /\ pureOut.nextUrl # NoNext
    /\ pureOut.polls < MaxPolls
    /\ pureOut' = [pureOut EXCEPT !.pc = "threw", !.polls = @ + 1,
                                  !.status = NoStatus, !.next = NoNext]
    /\ UNCHANGED <<fs, last, hist, procs, pureIn>>

\* one turn of while (nextUrl), whose status request resolves
Poll ==
    /\ pureOut.pc = "polling"
    /\ pureOut.nextUrl # NoNext
    /\ pureOut.polls < MaxPolls
    /\ \E status \in BatchStatuses :
          LET polled == [pureOut EXCEPT !.polls = @ + 1, !.status = status.status,
                                        !.next = status.next]
              pushed == [polled EXCEPT !.results = @ \o status.data]
          IN  pureOut' =
                  IF status.status = "failed" THEN [polled EXCEPT !.pc = "threw"]
                  ELSE IF status.status = "completed" /\ status.next = NoNext
                  THEN [pushed EXCEPT !.pc = "returned"]
                  ELSE [pushed EXCEPT !.nextUrl = status.next]
    /\ UNCHANGED <<fs, last, hist, procs, pureIn>>

\* while (nextUrl) is left with nextUrl undefined: return results
LoopEnds ==
    /\ pureOut.pc = "polling"
    /\ pureOut.nextUrl = NoNext
    /\ pureOut' = [pureOut EXCEPT !.pc = "returned"]
    /\ UNCHANGED <<fs, last, hist, procs, pureIn>>

NextBatch == StartFails \/ StartBatch \/ PollFails \/ Poll \/ LoopEnds

SpecBatch == InitBatch /\ [][NextBatch]_vars

\* C38: batchScrape returns its results only after a poll reported status
\* 'completed' with no further page to follow, never while the last
\* reported status is still in progress; and it throws when a poll reports
\* 'failed'.
C38_ReturnsWhenCompleted ==
    /\ pureOut.pc = "returned" =>
           /\ pureOut.status = "completed"
           /\ pureOut.next = NoNext
    /\ pureOut.status = "failed" => pureOut.pc = "threw"

====
